---- MODULE Spec2Model ----
(***************************************************************************)
(* EPIC-1 truth capture: ingestion orchestrator, registry, evidence store, *)
(* audit hash chain, write-once object store and the canonicalize worker.  *)
(*                                                                         *)
(* Conventions                                                             *)
(*   - a table is a set of rows (records); audit_log is a sequence whose   *)
(*     order is the order of the `at` column;                              *)
(*   - a uuid4() is the next unused number of its table, tagged;           *)
(*   - Python None and SQL NULL are NULL; a str that is None or "" is "";  *)
(*   - sha256 is collision free: the digest of x is <<"sha256", x>>.       *)
(***************************************************************************)
EXTENDS Integers, Sequences, FiniteSets, TLC

VARIABLES
    settings,                   \* the frozen Settings() snapshot read from the environment
    documents,                  \* table documents
    document_versions,          \* table document_versions
    evidence_files,             \* table evidence_files
    primary_axis_suggestions,   \* table primary_axis_suggestions
    derived_artifacts,          \* table derived_artifacts
    chunks,                     \* table chunks
    soi_versions,               \* table soi_versions, the read model
    soi_documents,              \* table soi_documents, the read model
    audit_log,                  \* table audit_log, ordered by `at`
    objects,                    \* the byte store: location -> bytes
    bus,                        \* topic settings.TOPIC_EVENTS, in publication order
    responses,                  \* the upload requests served so far, with their responses
    worker,                     \* the canonicalize worker process
    now,                        \* the database clock
    calls,                      \* the direct calls of a service method made so far
    inflight,                   \* the upload requests in progress: position and locals
    prompts,                    \* table prompts
    llm_runs                    \* table llm_runs

vars == <<settings, documents, document_versions, evidence_files, primary_axis_suggestions,
          derived_artifacts, chunks, soi_versions, soi_documents, audit_log, objects, bus,
          responses, worker, now, calls, inflight, prompts, llm_runs>>

----------------------------------------------------------------------------
(* Bounds *)

MaxRequests == 2        \* upload requests served in a behaviour of Spec
MaxUploads == 3         \* upload requests served in a behaviour of SpecDedupe
MaxRedeliveries == 1    \* times the bus rewinds the canonicalize consumer
MaxRegistryCalls == 2   \* direct calls of the status methods in a behaviour of SpecRegistry
MaxStorageCalls == 4    \* direct calls of the byte store in a behaviour of SpecStorage
MaxPages == 3           \* pages of a document in SpecPipeline and SpecChunker
MaxPageLen == 2         \* characters of a page in SpecChunker
MaxChars == 3           \* max_chars in SpecChunker
MaxOverlap == 2         \* overlap_chars in SpecChunker
MaxProjections == 2     \* messages the SoI worker takes in SpecSoi
MaxConcurrent == 2      \* upload requests of a behaviour of SpecConcurrent
MaxLlmMessages == 3      \* messages the LLM worker takes in SpecLlm

----------------------------------------------------------------------------
(* Values *)

NULL == <<>>

Sha256(x) == <<"sha256", x>>

sha256_bytes(pdf_bytes) == Sha256(pdf_bytes)

Max(S) == CHOOSE x \in S : \A y \in S : y <= x

\* str.strip() on the strings of the model
Strip(s) == CASE s = " " -> ""
              [] s = " theme " -> "theme"
              [] OTHER -> s

\* Python truthiness of a str: "x and x.strip()"
NonBlank(s) == s # "" /\ Strip(s) # ""

----------------------------------------------------------------------------
(* app/settings.py *)

MAX_PDF_MB == 50
S3_BUCKET == "epic1"
STORAGE_ROOT == "./storage"
LLM_MODEL_NAME == "stub-llm"
LLM_MODEL_VERSION == "0"
EXTRACTOR_VERSION == "pymupdf-text@1.0.0"
LAYOUT_VERSION == "pymupdf-layout@1.0.0"
CHUNKER_VERSION == "simple-chunker@1.0.0"
CHUNK_SCHEMA_VERSION == "chunk_set@1.0.0"

\* limits the worker reads from settings and Settings does not declare: the values the
\* environment gives them where they are declared
CHUNK_MAX_CHARS == 4
CHUNK_OVERLAP_CHARS == 1

\* Settings with the two chunking limits declared
SettingsFields_WithChunkLimits ==
    {"SERVICE_NAME", "ENV", "DATABASE_URL", "KAFKA_BOOTSTRAP", "KAFKA_CLIENT_ID", "TOPIC_EVENTS",
     "STORAGE_MODE", "STORAGE_ROOT", "S3_ENDPOINT_URL", "S3_ACCESS_KEY_ID", "S3_SECRET_ACCESS_KEY",
     "S3_BUCKET", "S3_REGION", "SIGNED_URL_EXPIRES_SEC", "EXTRACTOR_VERSION", "LAYOUT_VERSION",
     "CHUNKER_VERSION", "CHUNK_SCHEMA_VERSION", "CHUNK_MAX_CHARS", "CHUNK_OVERLAP_CHARS",
     "ENABLE_LLM_PRIMARY_AXIS_SUGGESTION", "LLM_MODEL_NAME", "LLM_MODEL_VERSION", "AUTH_MODE",
     "JWT_HS256_SECRET", "JWT_AUD", "JWT_ISS", "MAX_PDF_MB"}

\* the fields of the frozen dataclass Settings; any other attribute raises AttributeError
SettingsFields ==
    {"SERVICE_NAME", "ENV", "DATABASE_URL", "KAFKA_BOOTSTRAP", "KAFKA_CLIENT_ID", "TOPIC_EVENTS",
     "STORAGE_MODE", "STORAGE_ROOT", "S3_ENDPOINT_URL", "S3_ACCESS_KEY_ID", "S3_SECRET_ACCESS_KEY",
     "S3_BUCKET", "S3_REGION", "SIGNED_URL_EXPIRES_SEC", "EXTRACTOR_VERSION", "LAYOUT_VERSION",
     "CHUNKER_VERSION", "CHUNK_SCHEMA_VERSION", "ENABLE_LLM_PRIMARY_AXIS_SUGGESTION",
     "LLM_MODEL_NAME", "LLM_MODEL_VERSION", "AUTH_MODE", "JWT_HS256_SECRET", "JWT_AUD", "JWT_ISS",
     "MAX_PDF_MB"}

\* the environments the model runs in: STORAGE_MODE and the LLM suggestion switch
Settings(mode, llm) == [STORAGE_MODE |-> mode, ENABLE_LLM_PRIMARY_AXIS_SUGGESTION |-> llm]

----------------------------------------------------------------------------
(* The database as one value, so that a handler is a composition of statements *)

DB == [documents |-> documents,
       document_versions |-> document_versions,
       evidence_files |-> evidence_files,
       primary_axis_suggestions |-> primary_axis_suggestions,
       derived_artifacts |-> derived_artifacts,
       chunks |-> chunks,
       soi_versions |-> soi_versions,
       soi_documents |-> soi_documents,
       audit_log |-> audit_log,
       objects |-> objects,
       now |-> now]

Commit(D) ==
    /\ documents' = D.documents
    /\ document_versions' = D.document_versions
    /\ evidence_files' = D.evidence_files
    /\ primary_axis_suggestions' = D.primary_axis_suggestions
    /\ derived_artifacts' = D.derived_artifacts
    /\ chunks' = D.chunks
    /\ soi_versions' = D.soi_versions
    /\ soi_documents' = D.soi_documents
    /\ audit_log' = D.audit_log
    /\ objects' = D.objects
    /\ now' = D.now

\* now() of the next statement
Tick(D) == [D EXCEPT !.now = @ + 1]

----------------------------------------------------------------------------
(* app/infra/storage.py *)

\* os.path.join(self.root, key)
LocalStorage_full(key) == <<STORAGE_ROOT, key>>

Uri(scheme, netloc, path) == [scheme |-> scheme, netloc |-> netloc, path |-> path]

\* the later definition of parse_storage_uri in the module is the one in effect
parse_storage_uri(uri) ==
    IF uri.scheme = "s3" THEN <<"s3", uri.path>> ELSE <<"file", uri.path>>

exists(objs, loc) == loc \in DOMAIN objs

LocalStorage_put_bytes_write_once(objs, key, data) ==
    LET path == LocalStorage_full(key) IN
    [objects |-> IF ~ exists(objs, path) THEN objs @@ (path :> data) ELSE objs,
     uri |-> Uri("file", "", path)]

\* put_object without the exists() test
S3Storage_put_bytes_write_once_Overwrites(objs, key, data) ==
    [objects |-> [k \in DOMAIN objs \cup {key} |-> IF k = key THEN data ELSE objs[k]],
     uri |-> Uri("s3", S3_BUCKET, key)]

S3Storage_put_bytes_write_once(objs, key, data) ==
    IF exists(objs, key)
        THEN [objects |-> objs, uri |-> Uri("s3", S3_BUCKET, key)]
        ELSE [objects |-> objs @@ (key :> data), uri |-> Uri("s3", S3_BUCKET, key)]

\* make_storage().put_bytes_write_once
put_bytes_write_once(mode, objs, key, data) ==
    IF mode = "local"
        THEN LocalStorage_put_bytes_write_once(objs, key, data)
        ELSE S3Storage_put_bytes_write_once(objs, key, data)

\* LocalStorage.get_signed_url writes an empty object when the key is new
EmptyBytes == "b''"
LocalStorage_get_signed_url(objs, key) ==
    LocalStorage_put_bytes_write_once(objs, key, EmptyBytes)

----------------------------------------------------------------------------
(* app/services/audit.py *)

EntityRows(log, entity_type, entity_id) ==
    {i \in 1..Len(log) : log[i].entity_type = entity_type /\ log[i].entity_id = entity_id}

\* one chain for the whole log
last_hash_for_entity_Global(log, entity_type, entity_id) ==
    LET rows == {i \in 1..Len(log) : log[i].event_hash # NULL} IN
    IF rows = {} THEN NULL ELSE log[Max(rows)].event_hash

last_hash_for_entity(log, entity_type, entity_id) ==
    LET rows == {i \in EntityRows(log, entity_type, entity_id) : log[i].event_hash # NULL} IN
    IF rows = {} THEN NULL ELSE log[Max(rows)].event_hash

AuditPayload(row) ==
    [event_id |-> row.event_id, entity_type |-> row.entity_type, entity_id |-> row.entity_id,
     action |-> row.action, actor |-> row.actor, correlation_id |-> row.correlation_id,
     details |-> row.details, prev_event_hash |-> row.prev_event_hash]

\* lines 28-46 of AuditService.write once prev is read: payload, event_hash, INSERT
AuditService_insert(log, entity_type, entity_id, action, actor, correlation_id, details, prev) ==
    LET event_id == <<"evt", Len(log) + 1>>
        payload == [event_id |-> event_id, entity_type |-> entity_type, entity_id |-> entity_id,
                    action |-> action, actor |-> actor, correlation_id |-> correlation_id,
                    details |-> details, prev_event_hash |-> prev]
        event_hash == Sha256(payload)
    IN Append(log, [event_id |-> event_id, entity_type |-> entity_type, entity_id |-> entity_id,
                    action |-> action, actor |-> actor, correlation_id |-> correlation_id,
                    details |-> details, prev_event_hash |-> prev, event_hash |-> event_hash])

\* AuditService.write with enable_hash_chain = True, as every caller leaves it
AuditService_write(log, entity_type, entity_id, action, actor, correlation_id, details) ==
    AuditService_insert(log, entity_type, entity_id, action, actor, correlation_id, details,
                        last_hash_for_entity(log, entity_type, entity_id))

Audit(D, entity_type, entity_id, action, actor, correlation_id, details) ==
    [D EXCEPT !.audit_log =
        AuditService_write(@, entity_type, entity_id, action, actor, correlation_id, details)]

----------------------------------------------------------------------------
(* app/services/registry.py *)

ALLOWED_STATUSES == {"PENDING", "ACTIVE", "SUPERSEDED", "FAILED"}

Row(table, column, value) == CHOOSE r \in table : r[column] = value

Has(table, column, value) == \E r \in table : r[column] = value

\* fetchone: the set of the row returned, {} for None.  SELECT ... LIMIT 1 under the
\* unique constraint on the four columns
find_document_by_metadata(docs, title, jurisdiction, regulation_family, instrument_type) ==
    LET found == {d \in docs : /\ d.title = title
                               /\ d.jurisdiction = jurisdiction
                               /\ d.regulation_family = regulation_family
                               /\ d.instrument_type = instrument_type}
    IN IF found = {} THEN {} ELSE {CHOOSE d \in found : TRUE}

NewDocumentId(docs) == <<"doc", Cardinality(docs) + 1>>

create_document(docs, title, jurisdiction, regulation_family, instrument_type, primary_axis, primary_axis_source) ==
    docs \cup {[document_id |-> NewDocumentId(docs), title |-> title,
                jurisdiction |-> jurisdiction, regulation_family |-> regulation_family,
                instrument_type |-> instrument_type, primary_axis |-> primary_axis,
                primary_axis_source |-> primary_axis_source]}

NewVersionId(versions) == <<"ver", Cardinality(versions) + 1>>

\* the parent is looked up but its document is not compared
create_version_error_AnyDocument(versions, document_id, parent_version_id, status) ==
    IF status \notin ALLOWED_STATUSES THEN "Invalid status"
    ELSE IF parent_version_id # NULL /\ ~ Has(versions, "version_id", parent_version_id)
        THEN "parent_version_id not found"
    ELSE ""

\* the HTTPException create_version raises, "" when it raises none
create_version_error(versions, document_id, parent_version_id, status) ==
    IF status \notin ALLOWED_STATUSES THEN "Invalid status"
    ELSE IF parent_version_id # NULL /\ ~ Has(versions, "version_id", parent_version_id)
        THEN "parent_version_id not found"
    ELSE IF parent_version_id # NULL
            /\ Row(versions, "version_id", parent_version_id).document_id # document_id
        THEN "parent_version_id belongs to a different document_id"
    ELSE ""

create_version(versions, document_id, tenant_id, effective_year, uploaded_by, raw_sha256, parent_version_id, file_id, status) ==
    IF create_version_error(versions, document_id, parent_version_id, status) # ""
        THEN versions
        ELSE versions \cup {[version_id |-> NewVersionId(versions), document_id |-> document_id,
                             status |-> status, parent_version_id |-> parent_version_id,
                             tenant_id |-> tenant_id, effective_year |-> effective_year,
                             uploaded_by |-> uploaded_by, raw_sha256 |-> raw_sha256,
                             file_id |-> file_id, uploaded_at |-> 0,
                             artifacts_json |-> {}]}

set_version_file_id(versions, version_id, file_id, at) ==
    {IF v.version_id = version_id
        THEN [v EXCEPT !.file_id = file_id, !.uploaded_at = at] ELSE v : v \in versions}

\* artifacts_json is the set of the (key, value) pairs of the object, empty while NULL
set_artifacts_json(versions, version_id, artifacts_json) ==
    {IF v.version_id = version_id
        THEN [v EXCEPT !.artifacts_json = artifacts_json] ELSE v : v \in versions}

\* UPDATE without "AND status='ACTIVE'"
mark_parent_superseded_Unguarded(versions, parent_version_id) ==
    {IF v.version_id = parent_version_id
        THEN [v EXCEPT !.status = "SUPERSEDED"] ELSE v : v \in versions}

mark_parent_superseded(versions, parent_version_id) ==
    {IF v.version_id = parent_version_id /\ v.status = "ACTIVE"
        THEN [v EXCEPT !.status = "SUPERSEDED"] ELSE v : v \in versions}

set_status_pending_to_active(versions, version_id) ==
    {IF v.version_id = version_id /\ v.status = "PENDING"
        THEN [v EXCEPT !.status = "ACTIVE"] ELSE v : v \in versions}

\* UPDATE without "AND status='PENDING'"
set_status_pending_to_failed_Unguarded(versions, version_id) ==
    {IF v.version_id = version_id
        THEN [v EXCEPT !.status = "FAILED"] ELSE v : v \in versions}

set_status_pending_to_failed(versions, version_id) ==
    {IF v.version_id = version_id /\ v.status = "PENDING"
        THEN [v EXCEPT !.status = "FAILED"] ELSE v : v \in versions}

\* INSERT without ON CONFLICT and without the unique key on version_id
upsert_primary_axis_suggestion_AlwaysInserts(suggestions, version_id, suggested_axis, model_name, model_version, confidence, details_json) ==
    suggestions \cup {[suggestion_id |-> <<"sug", Cardinality(suggestions) + 1>>,
                       version_id |-> version_id, suggested_axis |-> suggested_axis,
                       model_name |-> model_name, model_version |-> model_version,
                       confidence |-> confidence, details_json |-> details_json]}

\* INSERT ... ON CONFLICT (version_id) DO UPDATE: the suggestion_id of an existing row stays
upsert_primary_axis_suggestion(suggestions, version_id, suggested_axis, model_name, model_version, confidence, details_json) ==
    IF Has(suggestions, "version_id", version_id)
        THEN {IF s.version_id = version_id
                THEN [s EXCEPT !.suggested_axis = suggested_axis, !.model_name = model_name,
                               !.model_version = model_version, !.confidence = confidence,
                               !.details_json = details_json]
                ELSE s : s \in suggestions}
        ELSE suggestions \cup {[suggestion_id |-> <<"sug", Cardinality(suggestions) + 1>>,
                                version_id |-> version_id, suggested_axis |-> suggested_axis,
                                model_name |-> model_name, model_version |-> model_version,
                                confidence |-> confidence, details_json |-> details_json]}

----------------------------------------------------------------------------
(* app/services/evidence_store.py *)

\* fetchone: the set of the row returned, {} for None.  ORDER BY created_at DESC LIMIT 1
find_by_sha(evidence, sha256) ==
    LET rows == {f \in evidence : f.sha256 = sha256} IN
    {f \in rows : \A g \in rows : g.created_at <= f.created_at}

NewFileId(evidence) == <<"file", Cardinality(evidence) + 1>>

EvidenceKey(document_id, version_id, file_id) == <<"evidence", document_id, version_id, file_id, ".pdf">>

\* len(pdf_bytes), in MiB
PdfSizeMb(pdf_bytes) == IF pdf_bytes = "huge.pdf" THEN MAX_PDF_MB + 1 ELSE 1

\* the key names the document only
create_evidence_KeyPerDocument(D, mode, sha256, pdf_bytes, document_id, version_id) ==
    LET file_id == NewFileId(D.evidence_files)
        key == <<"evidence", document_id, ".pdf">>
        put == put_bytes_write_once(mode, D.objects, key, pdf_bytes)
    IN [D EXCEPT !.objects = put.objects,
                 !.evidence_files = @ \cup {[file_id |-> file_id, version_id |-> version_id,
                                             sha256 |-> sha256, mime_type |-> "application/pdf",
                                             size_bytes |-> PdfSizeMb(pdf_bytes),
                                             storage_uri |-> put.uri, created_at |-> D.now]}]

\* writes the bytes under a fresh key, then inserts the row
create_evidence(D, mode, sha256, pdf_bytes, document_id, version_id) ==
    LET file_id == NewFileId(D.evidence_files)
        key == EvidenceKey(document_id, version_id, file_id)
        put == put_bytes_write_once(mode, D.objects, key, pdf_bytes)
    IN [D EXCEPT !.objects = put.objects,
                 !.evidence_files = @ \cup {[file_id |-> file_id, version_id |-> version_id,
                                             sha256 |-> sha256, mime_type |-> "application/pdf",
                                             size_bytes |-> PdfSizeMb(pdf_bytes),
                                             storage_uri |-> put.uri, created_at |-> D.now]}]

----------------------------------------------------------------------------
(* app/refdata/loader.py, app/refdata/rules.py *)

\* the rule row ensure_default_rules installs at startup of the API
DEFAULT_RULES ==
    [required_fields |-> {"title", "jurisdiction", "regulation_family", "instrument_type",
                          "primary_axis", "tenant_id", "effective_year"},
     max_pdf_mb |-> MAX_PDF_MB]

\* request_payload.get(f) in (None, "", []); effective_year is an int
MissingFields(ref_rules, request_payload) ==
    {f \in ref_rules.required_fields : f # "effective_year" /\ request_payload[f] = ""}

\* the keyword tests of derive_primary_axis_deterministic on the texts of the model
ProductTexts == {"EU Battery Regulation", "steel"}
ThemeTexts == {"ESRS Disclosure Standard", "taxonomy"}

derive_primary_axis_deterministic(jurisdiction, title, regulation_family, instrument_type) ==
    IF NonBlank(jurisdiction) THEN <<"jurisdiction", "DETERMINISTIC_RULE">>
    ELSE IF {title, regulation_family, instrument_type} \cap ProductTexts # {}
        THEN <<"product_scope", "DETERMINISTIC_RULE">>
    ELSE IF {title, regulation_family, instrument_type} \cap ThemeTexts # {}
        THEN <<"theme", "DETERMINISTIC_RULE">>
    ELSE <<"theme", "DETERMINISTIC_RULE">>

----------------------------------------------------------------------------
(* app/services/ingestion.py *)

Rules == DEFAULT_RULES

\* "SELECT * FROM evidence_files WHERE sha256=%s LIMIT 1" has no ORDER BY: the database
\* may return any row with that sha.  The rows fetchone can return, as sets of one row.
FirstEvidenceRowChoices(evidence, sha256) ==
    LET rows == {f \in evidence : f.sha256 = sha256} IN
    IF rows = {} THEN {{}} ELSE {{f} : f \in rows}

SameMetadata(d, meta) ==
    /\ d.jurisdiction = meta.jurisdiction
    /\ d.regulation_family = meta.regulation_family
    /\ d.title = meta.title
    /\ d.instrument_type = meta.instrument_type

\* the versions the join returns that pass the metadata test; the loop returns the one
\* with the latest uploaded_at.  fset is the row LIMIT 1 returned ({} for none).
dedupe_match_existing(D, sha256, meta, fset) ==
    IF fset = {} THEN {}
    ELSE LET f == CHOOSE x \in fset : TRUE
             rows == {v \in D.document_versions :
                        /\ v.raw_sha256 = sha256
                        /\ v.file_id = f.file_id
                        /\ SameMetadata(Row(D.documents, "document_id", v.document_id), meta)}
         IN {[document_id |-> v.document_id, version_id |-> v.version_id,
              file_id |-> f.file_id, sha256 |-> sha256] :
                v \in {w \in rows : \A x \in rows : x.uploaded_at <= w.uploaded_at}}

Response(http_status, ingestion_status, detail, correlation_id, document_id, version_id, file_id, sha256, primary_axis_source, primary_axis_suggestion) ==
    [http_status |-> http_status, ingestion_status |-> ingestion_status, detail |-> detail,
     correlation_id |-> correlation_id, document_id |-> document_id, version_id |-> version_id,
     file_id |-> file_id, sha256 |-> sha256, primary_axis_source |-> primary_axis_source,
     primary_axis_suggestion |-> primary_axis_suggestion]

HTTPException(status_code, detail, correlation_id) ==
    Response(status_code, "", detail, correlation_id, NULL, NULL, NULL, NULL, "", "")

\* _suggest_primary_axis: (suggested_axis, confidence in percent, details_json)
suggest_primary_axis(meta) ==
    <<derive_primary_axis_deterministic(meta.jurisdiction, meta.title, meta.regulation_family,
                                        meta.instrument_type)[1],
      "0.55", "stub_rule_suggestion">>

\* lines 137-149: the truth value, its source, and meta["primary_axis"] afterwards
ResolvePrimaryAxis(meta) ==
    IF NonBlank(meta.primary_axis)
        THEN [value |-> Strip(meta.primary_axis), source |-> "UPLOAD", meta |-> meta]
        ELSE LET d == derive_primary_axis_deterministic(meta.jurisdiction, meta.title,
                                                        meta.regulation_family, meta.instrument_type)
             IN [value |-> d[1], source |-> d[2], meta |-> [meta EXCEPT !.primary_axis = d[1]]]

\* the suggestion is also written to the document of the version
StoreSuggestion_WritesTruth(D, version_id, sug, actor, correlation_id) ==
    LET document_id == Row(D.document_versions, "version_id", version_id).document_id IN
    Audit([D EXCEPT !.primary_axis_suggestions =
                upsert_primary_axis_suggestion(@, version_id, sug[1], LLM_MODEL_NAME,
                                               LLM_MODEL_VERSION, sug[2], sug[3]),
                    !.documents = {IF d.document_id = document_id
                                     THEN [d EXCEPT !.primary_axis = sug[1]] ELSE d : d \in @}],
          "version", version_id, "EPIC1.LLM.PRIMARY_AXIS_SUGGESTED", actor, correlation_id,
          [suggested_axis |-> sug[1], confidence |-> sug[2],
           model_name |-> LLM_MODEL_NAME, model_version |-> LLM_MODEL_VERSION])

\* lines 231-261: the suggestion row and its audit row; documents is not written
StoreSuggestion(D, version_id, sug, actor, correlation_id) ==
    Audit([D EXCEPT !.primary_axis_suggestions =
                upsert_primary_axis_suggestion(@, version_id, sug[1], LLM_MODEL_NAME,
                                               LLM_MODEL_VERSION, sug[2], sug[3])],
          "version", version_id, "EPIC1.LLM.PRIMARY_AXIS_SUGGESTED", actor, correlation_id,
          [suggested_axis |-> sug[1], confidence |-> sug[2],
           model_name |-> LLM_MODEL_NAME, model_version |-> LLM_MODEL_VERSION])

\* lines 182-275, once the document is known
IngestVersion(D, cfg, pdf_bytes, meta, actor, force_new_version, correlation_id, sha, document_id, created_new_doc, primary_axis_source_out) ==
    LET err == create_version_error(D.document_versions, document_id, meta.parent_version_id, "PENDING")
        version_id == NewVersionId(D.document_versions)
        D1 == [D EXCEPT !.document_versions =
                  create_version(@, document_id, meta.tenant_id, meta.effective_year, actor, sha,
                                 meta.parent_version_id, NULL, "PENDING")]
        evidence_row == find_by_sha(D1.evidence_files, sha)
        reuse == evidence_row # {} /\ force_new_version
        D2 == IF reuse THEN D1
              ELSE create_evidence(D1, cfg.STORAGE_MODE, sha, pdf_bytes, document_id, version_id)
        file_id == IF reuse THEN (CHOOSE f \in evidence_row : TRUE).file_id
                   ELSE NewFileId(D1.evidence_files)
        D3 == [D2 EXCEPT !.document_versions = set_version_file_id(@, version_id, file_id, D2.now)]
        D4 == IF meta.parent_version_id # NULL
                THEN Audit([D3 EXCEPT !.document_versions =
                                mark_parent_superseded(@, meta.parent_version_id)],
                           "version", meta.parent_version_id, "EPIC1.PARENT_VERSION_SUPERSEDED",
                           actor, correlation_id, [child_version_id |-> version_id])
                ELSE D3
        D5 == Audit(D4, "version", version_id, "EPIC1.REGISTRY.VERSION_CREATED", actor,
                    correlation_id,
                    [document_id |-> document_id, file_id |-> file_id, raw_sha256 |-> sha])
        sug == suggest_primary_axis(meta)
        D6 == IF cfg.ENABLE_LLM_PRIMARY_AXIS_SUGGESTION
                THEN StoreSuggestion(D5, version_id, sug, actor, correlation_id)
                ELSE D5
    IN IF err # ""
        THEN [db |-> D, res |-> HTTPException(400, err, correlation_id)]
        ELSE [db |-> D6,
              res |-> Response(201,
                               IF reuse THEN "CREATED_NEW_VERSION_REUSED_FILE"
                               ELSE IF created_new_doc THEN "CREATED_NEW_DOCUMENT_AND_VERSION"
                               ELSE "CREATED_NEW_VERSION",
                               "", correlation_id, document_id, version_id, file_id, sha,
                               primary_axis_source_out,
                               IF cfg.ENABLE_LLM_PRIMARY_AXIS_SUGGESTION THEN sug[1] ELSE "")]

\* line 161, the guardrail: meta.get("primary_axis") and doc.get("primary_axis") and
\* meta["primary_axis"] != doc["primary_axis"]
PrimaryAxisMismatch_Dropped(meta, doc) == FALSE

PrimaryAxisMismatch(meta, doc) ==
    /\ meta.primary_axis # ""
    /\ doc.primary_axis # ""
    /\ meta.primary_axis # doc.primary_axis

\* lines 137-180: resolve the truth value, find or create the document
IngestDocument(D, cfg, pdf_bytes, meta0, actor, force_new_version, correlation_id, sha) ==
    LET axis == ResolvePrimaryAxis(meta0)
        meta == axis.meta
        docs == find_document_by_metadata(D.documents, meta.title, meta.jurisdiction,
                                          meta.regulation_family, meta.instrument_type)
        doc == CHOOSE d \in docs : TRUE
    IN IF docs # {}
        THEN IF PrimaryAxisMismatch(meta, doc)
               THEN [db |-> D,
                     res |-> HTTPException(400, "primary_axis mismatch for existing document",
                                           correlation_id)]
               ELSE IngestVersion(D, cfg, pdf_bytes, meta, actor, force_new_version,
                                  correlation_id, sha, doc.document_id, FALSE,
                                  doc.primary_axis_source)
        ELSE IngestVersion([D EXCEPT !.documents =
                               create_document(@, meta.title, meta.jurisdiction,
                                               meta.regulation_family, meta.instrument_type,
                                               axis.value, axis.source)],
                           cfg, pdf_bytes, meta, actor, force_new_version, correlation_id, sha,
                           NewDocumentId(D.documents), TRUE, axis.source)

\* IngestionService.ingest_request; fset is the row the dedupe LIMIT 1 returned
ingest_request(D0, cfg, pdf_bytes, meta, actor, force_new_version, correlation_id, fset) ==
    LET D == Tick(D0)
        sha == sha256_bytes(pdf_bytes)
        D1 == Audit(D, "system", "epic1", "EPIC1.REQUEST.RECEIVED", actor, correlation_id,
                    [meta |-> meta, force_new_version |-> force_new_version])
        D2 == Audit(D1, "system", "epic1", "EPIC1.FINGERPRINT.COMPUTED", actor, correlation_id,
                    [raw_sha256 |-> sha])
        D3 == Audit(D2, "system", "epic1", "EPIC1.DEDUP.CHECKED", actor, correlation_id,
                    [raw_sha256 |-> sha])
        existing == dedupe_match_existing(D3, sha, meta, fset)
        ex == CHOOSE e \in existing : TRUE
    IN IF MissingFields(Rules, meta) # {}
        THEN [db |-> D0, res |-> HTTPException(400, "Missing required fields", correlation_id)]
       ELSE IF PdfSizeMb(pdf_bytes) > Rules.max_pdf_mb
        THEN [db |-> D0, res |-> HTTPException(400, "PDF too large", correlation_id)]
       ELSE IF existing # {} /\ ~ force_new_version
        THEN [db |-> Audit(D3, "version", ex.version_id, "EPIC1.DEDUP.SHORTCIRCUIT_RETURNED",
                           actor, correlation_id, [raw_sha256 |-> sha]),
              res |-> Response(200, "DEDUP_RETURN_EXISTING", "", correlation_id, ex.document_id,
                               ex.version_id, ex.file_id, sha,
                               Row(D3.documents, "document_id", ex.document_id).primary_axis_source,
                               "")]
       ELSE IngestDocument(D3, cfg, pdf_bytes, meta, actor, force_new_version, correlation_id, sha)

----------------------------------------------------------------------------
(* app/services/artifacts.py, app/services/canonical_pipeline.py *)

\* str.encode("utf-8"), and _json_bytes of a dict and of a list
utf8(text) == <<"utf8", [text |-> text]>>
json_bytes(obj) == <<"json", obj>>
json_bytes_list(items) == <<"json", [list |-> items]>>

\* fitz cannot open these bytes: CanonicalTextPipeline.extract raises
CorruptPdfs == {"B.pdf"}

\* a text is a sequence of characters; page.get_text("text") of each page of the PDFs
\* of the model, as fitz returns them
NL == "\n"
PagesOf(pdf_bytes) ==
    IF pdf_bytes = "A.pdf" THEN << <<"a", "b", NL, NL>>, <<>>, <<"c", " ">> >>
    ELSE << <<"d">> >>

RECURSIVE Join(_)
\* "".join(pages_text)
Join(pages_text) ==
    IF pages_text = <<>> THEN <<>> ELSE Head(pages_text) \o Join(Tail(pages_text))

\* the page_map entry of lines 18-23; the page rectangle is not modelled
PageEntry_OffByOne(page_no, offset, page_len) ==
    [page |-> page_no + 1, start_char |-> offset, end_char |-> offset + page_len + 1]

PageEntry(page_no, offset, page_len) ==
    [page |-> page_no + 1, start_char |-> offset, end_char |-> offset + page_len]

RECURSIVE extract_loop(_, _, _, _)
\* for page_no in range(doc.page_count), lines 12-31
extract_loop(pages, page_no, offset, st) ==
    IF page_no >= Len(pages) THEN st
    ELSE LET text == pages[page_no + 1]
             page_len == Len(text)
         IN extract_loop(pages, page_no + 1, offset + page_len,
                         [pages_text |-> Append(st.pages_text, text),
                          page_map |-> Append(st.page_map, PageEntry(page_no, offset, page_len))])

\* CanonicalTextPipeline.extract on the pages fitz yields
extract_pages(pages, layout_lines) ==
    LET st == extract_loop(pages, 0, 0, [pages_text |-> <<>>, page_map |-> <<>>]) IN
    [stable_text |-> Join(st.pages_text),
     page_map |-> st.page_map,
     layout_map |-> [lines |-> layout_lines]]

\* CanonicalTextPipeline.extract, a function of the bytes
extract(pdf_bytes) == extract_pages(PagesOf(pdf_bytes), <<"lines of", pdf_bytes>>)

NewArtifactId(artifacts) == <<"art", Cardinality(artifacts) + 1>>

register(D, mode, version_id, kind, content_bytes, key, generator_name, generator_version) ==
    LET put == put_bytes_write_once(mode, D.objects, key, content_bytes) IN
    [D EXCEPT !.objects = put.objects,
              !.derived_artifacts = @ \cup
                  {[artifact_id |-> NewArtifactId(D.derived_artifacts), version_id |-> version_id,
                    kind |-> kind, sha256 |-> Sha256(content_bytes), storage_uri |-> put.uri,
                    generator_name |-> generator_name, generator_version |-> generator_version]}]

store_canonical(D, mode, version_id, stable_text, page_map, layout_map) ==
    LET D1 == register(D, mode, version_id, "stable_text", utf8(stable_text),
                       <<"canonical", version_id, "stable_text.txt">>,
                       "canonical_text_pipeline", EXTRACTOR_VERSION)
        D2 == register(D1, mode, version_id, "page_map", json_bytes_list(page_map),
                       <<"canonical", version_id, "page_map.json">>,
                       "canonical_text_pipeline", EXTRACTOR_VERSION)
    IN register(D2, mode, version_id, "layout_map", json_bytes(layout_map),
                <<"canonical", version_id, "layout_map.json">>,
                "canonical_layout_pipeline", LAYOUT_VERSION)

store_chunk_set(D, mode, version_id, chunk_set_obj, generator_version) ==
    register(D, mode, version_id, "chunk_set", json_bytes(chunk_set_obj),
             <<"indexes", version_id, "chunk_sets", "chunk_set.json">>, "chunker",
             generator_version)

store_json_artifact(D, mode, version_id, kind, obj, generator_name, generator_version, key) ==
    register(D, mode, version_id, kind, json_bytes(obj), key, generator_name,
             generator_version)

----------------------------------------------------------------------------
(* app/services/chunking.py; offsets are Python's, 0-based, slices half-open *)

\* SimpleDeterministicChunker.__init__(max_chars=1500)
DefaultMaxChars == 1500

\* the whitespace of the texts of the model
IsSpace(c) == c \in {" ", NL}

\* not text.strip()
IsBlank(text) == \A i \in 1..Len(text) : IsSpace(text[i])

\* stable_text[start:end]
Slice(text, start, end) == SubSeq(text, start + 1, end)

sha256_text(text) == Sha256(utf8(text))

RECURSIVE page_for_offset_loop(_, _, _)
\* for p in page_map: the first page with start_char <= pos <= end_char
page_for_offset_loop(page_map, pos, i) ==
    IF i > Len(page_map)
        THEN IF page_map # <<>> THEN page_map[Len(page_map)].page ELSE 1
    ELSE IF page_map[i].start_char <= pos /\ pos <= page_map[i].end_char
        THEN page_map[i].page
    ELSE page_for_offset_loop(page_map, pos, i + 1)

page_for_offset(page_map, pos) == page_for_offset_loop(page_map, pos, 1)

\* stable_text.find("\n\n", i), -1 when there is none
find_paragraph_break(stable_text, i) ==
    LET hits == {j \in i..(Len(stable_text) - 2) :
                    stable_text[j + 1] = NL /\ stable_text[j + 2] = NL}
    IN IF hits = {} THEN -1 ELSE CHOOSE j \in hits : \A h \in hits : j <= h

\* emit without the test of text.strip()
emit_KeepsBlank(chunk_list, stable_text, page_map, start, end) ==
    Append(chunk_list, [start_char |-> start, end_char |-> end,
                    page_start |-> page_for_offset(page_map, start),
                    page_end |-> page_for_offset(page_map, Max({start, end - 1})),
                    text_sha256 |-> sha256_text(Slice(stable_text, start, end))])

\* emit(start, end), lines 37-47
emit(chunk_list, stable_text, page_map, start, end) ==
    IF IsBlank(Slice(stable_text, start, end)) THEN chunk_list
    ELSE Append(chunk_list, [start_char |-> start, end_char |-> end,
                         page_start |-> page_for_offset(page_map, start),
                         page_end |-> page_for_offset(page_map, Max({start, end - 1})),
                         text_sha256 |-> sha256_text(Slice(stable_text, start, end))])

\* the cursor steps back by the overlap even when that does not move it forward
next_start_WithoutFloor(start, end, overlap) ==
    IF overlap = 0 THEN end ELSE end - overlap

\* line 59: start = end if overlap == 0 else max(start + 1, end - overlap)
next_start(start, end, overlap) ==
    IF overlap = 0 THEN end ELSE Max({start + 1, end - overlap})

\* line 56: end = min(start + max_len, para_end)
piece_end(start, max_len, para_end) ==
    IF start + max_len < para_end THEN start + max_len ELSE para_end

\* lines 30-35: the policy chunk works with
chunk_policy(max_chars, overlap_chars) ==
    LET max_len == IF max_chars = 0 THEN DefaultMaxChars ELSE max_chars IN
    [max_len |-> max_len,
     overlap |-> IF max_len > 1
                   THEN (IF Max({0, overlap_chars}) < max_len - 1
                           THEN Max({0, overlap_chars}) ELSE max_len - 1)
                   ELSE 0]

RECURSIVE chunk_paragraph(_, _, _, _, _, _, _)
\* while start < para_end, lines 55-59
chunk_paragraph(stable_text, page_map, max_len, overlap, start, para_end, chunk_list) ==
    IF start >= para_end THEN chunk_list
    ELSE LET end == piece_end(start, max_len, para_end) IN
         chunk_paragraph(stable_text, page_map, max_len, overlap,
                         next_start(start, end, overlap),
                         para_end, emit(chunk_list, stable_text, page_map, start, end))

RECURSIVE chunk_text(_, _, _, _, _, _)
\* while i < n, lines 49-60
chunk_text(stable_text, page_map, max_len, overlap, i, chunk_list) ==
    IF i >= Len(stable_text) THEN chunk_list
    ELSE LET j == find_paragraph_break(stable_text, i)
             para_end == IF j = -1 THEN Len(stable_text) ELSE j
         IN chunk_text(stable_text, page_map, max_len, overlap, para_end + 2,
                       chunk_paragraph(stable_text, page_map, max_len, overlap, i, para_end,
                                       chunk_list))

\* SimpleDeterministicChunker.chunk: the chunks and the manifest
chunk(stable_text, page_map, max_chars, overlap_chars) ==
    LET max_len == chunk_policy(max_chars, overlap_chars).max_len
        overlap == chunk_policy(max_chars, overlap_chars).overlap
        chunk_list == chunk_text(stable_text, page_map, max_len, overlap, 0, <<>>)
    IN [chunks |-> chunk_list,
        manifest |-> [policy |-> [max_chars |-> max_len, overlap_chars |-> overlap,
                                  split |-> "paragraph_then_hard"],
                      count |-> Len(chunk_list)]]

----------------------------------------------------------------------------
(* app/api/routes_epic1.py: POST /regulations/upload *)

DomainEvent(event_type, correlation_id, actor, entity_type, entity_id, payload) ==
    [event_type |-> event_type, correlation_id |-> correlation_id, actor |-> actor,
     entity_type |-> entity_type, entity_id |-> entity_id, payload |-> payload]

Meta(m, primary_axis, parent_version_id) ==
    [title |-> m.title, jurisdiction |-> m.jurisdiction,
     regulation_family |-> m.regulation_family, instrument_type |-> m.instrument_type,
     primary_axis |-> primary_axis, tenant_id |-> "t1", effective_year |-> 2026,
     parent_version_id |-> parent_version_id]

\* an event for any response
publish_version_created_Always(L) ==
    Append(bus, DomainEvent("EPIC1.REGISTRY.VERSION_CREATED", L.res.correlation_id,
                            L.actor, "version", L.res.version_id,
                            [document_id |-> L.res.document_id,
                             version_id |-> L.res.version_id,
                             file_id |-> L.res.file_id, raw_sha256 |-> L.res.sha256]))

\* routes_epic1.py lines 69-88: the bus after the route has handled the result
publish_version_created(L) ==
    IF L.res.http_status = 201
        THEN Append(bus, DomainEvent("EPIC1.REGISTRY.VERSION_CREATED", L.res.correlation_id,
                                     L.actor, "version", L.res.version_id,
                                     [document_id |-> L.res.document_id,
                                      version_id |-> L.res.version_id,
                                      file_id |-> L.res.file_id,
                                      raw_sha256 |-> L.res.sha256]))
        ELSE bus

\* the handler of one upload: ingest_request, then VERSION_CREATED on the bus for a 201
Upload(pdf_bytes, meta, force_new_version, fset) ==
    LET correlation_id == <<"corr", Len(responses) + 1>>
        out == ingest_request(DB, settings, pdf_bytes, meta, "op1", force_new_version,
                              correlation_id, fset)
        res == out.res
    IN /\ Commit(out.db)
       /\ bus' = publish_version_created([res |-> res, actor |-> "op1"])
       /\ responses' = Append(responses,
            [pdf_bytes |-> pdf_bytes, meta |-> meta, force_new_version |-> force_new_version,
             res |-> res,
             \* what the request found, for the statements about it
             before |-> [doc |-> find_document_by_metadata(documents, meta.title,
                                     meta.jurisdiction, meta.regulation_family,
                                     meta.instrument_type),
                         parent |-> {v \in document_versions :
                                        v.version_id = meta.parent_version_id}],
             \* what the request left
             after |-> [parent |-> {v \in out.db.document_versions :
                                       v.version_id = meta.parent_version_id}],
             inserted |->
               [documents |-> Cardinality(out.db.documents) - Cardinality(documents),
                document_versions |-> Cardinality(out.db.document_versions)
                                       - Cardinality(document_versions),
                evidence_files |-> Cardinality(out.db.evidence_files)
                                    - Cardinality(evidence_files)]])
       /\ UNCHANGED <<settings, prompts, llm_runs, worker, calls, inflight>>

\* the parent_version_id values an operator can send: none, an unknown id, any version
ParentChoices == {NULL, <<"ver", 0>>} \cup {v.version_id : v \in document_versions}

\* an operator uploads: any file, metadata, axis, parent and flag of the given sets
upload_regulation(Files, Metas, Axes, Forces, Parents, bound) ==
    /\ Len(responses) < bound
    /\ \E pdf_bytes \in Files, m \in Metas, primary_axis \in Axes, force_new_version \in Forces :
       \E parent_version_id \in Parents :
       \E fset \in FirstEvidenceRowChoices(evidence_files, sha256_bytes(pdf_bytes)) :
            Upload(pdf_bytes, Meta(m, primary_axis, parent_version_id), force_new_version, fset)

----------------------------------------------------------------------------
(* POST /regulations/upload statement by statement.  The database connection is in    *)
(* autocommit, so every statement of ingest_request commits by itself and requests    *)
(* served at the same time interleave between statements.  A step is one statement    *)
(* (the two reads of _dedupe_match_existing, the parent check and INSERT of           *)
(* create_version, and the put and INSERT of create_evidence are one step each)       *)
(* together with the Python that follows it up to the next statement.                 *)

\* the locals of a request that has passed validation and is about to write an audit row
NewRequest(pdf_bytes, meta, force_new_version, correlation_id) ==
    [pc |-> "last_hash_for_entity", pdf_bytes |-> pdf_bytes, meta |-> meta,
     request_meta |-> meta, force_new_version |-> force_new_version,
     correlation_id |-> correlation_id, actor |-> "op1", sha |-> sha256_bytes(pdf_bytes),
     audit |-> [entity_type |-> "system", entity_id |-> "epic1",
                action |-> "EPIC1.REQUEST.RECEIVED",
                details |-> [meta |-> meta, force_new_version |-> force_new_version]],
     then |-> "fingerprint", prev |-> NULL, primary_axis_value |-> "",
     primary_axis_source |-> "", primary_axis_source_out |-> "", document_id |-> NULL,
     no_doc |-> FALSE, created_new_doc |-> FALSE, version_id |-> NULL, reuse |-> FALSE,
     file_id |-> NULL, res |-> NULL]

\* self.audit.write(...) is next: its SELECT, then its INSERT, then `then`
WriteAudit(L, entity_type, entity_id, action, details, then) ==
    [L EXCEPT !.pc = "last_hash_for_entity",
              !.audit = [entity_type |-> entity_type, entity_id |-> entity_id,
                         action |-> action, details |-> details],
              !.then = then]

\* raise HTTPException, or any exception the handler does not catch
Raise(L, status_code, detail) ==
    [L EXCEPT !.pc = "respond", !.res = HTTPException(status_code, detail, L.correlation_id)]

\* lines 263-275
Return201(L, cfg, primary_axis_suggestion) ==
    [L EXCEPT !.pc = "publish",
              !.res = Response(201,
                               IF L.reuse THEN "CREATED_NEW_VERSION_REUSED_FILE"
                               ELSE IF L.created_new_doc THEN "CREATED_NEW_DOCUMENT_AND_VERSION"
                               ELSE "CREATED_NEW_VERSION",
                               "", L.correlation_id, L.document_id, L.version_id, L.file_id,
                               L.sha, L.primary_axis_source_out, primary_axis_suggestion)]

\* the Python between the INSERT of an audit row and the next statement
AfterAudit(L, cfg) ==
    CASE L.then = "fingerprint" ->
            WriteAudit(L, "system", "epic1", "EPIC1.FINGERPRINT.COMPUTED",
                       [raw_sha256 |-> L.sha], "dedup_checked")
      [] L.then = "dedup_checked" ->
            WriteAudit(L, "system", "epic1", "EPIC1.DEDUP.CHECKED",
                       [raw_sha256 |-> L.sha], "dedupe_match_existing")
      [] L.then = "version_created" ->
            WriteAudit(L, "version", L.version_id, "EPIC1.REGISTRY.VERSION_CREATED",
                       [document_id |-> L.document_id, file_id |-> L.file_id,
                        raw_sha256 |-> L.sha], "suggestion")
      [] L.then = "suggestion" ->
            IF cfg.ENABLE_LLM_PRIMARY_AXIS_SUGGESTION
                THEN [L EXCEPT !.pc = "upsert_primary_axis_suggestion"]
                ELSE Return201(L, cfg, "")
      [] L.then = "return" -> Return201(L, cfg, suggest_primary_axis(L.meta)[1])
      [] OTHER -> [L EXCEPT !.pc = L.then]

At(i, pc) == i \in DOMAIN inflight /\ inflight[i].pc = pc

\* a request arrives: lines 81-96 up to the SELECT of the first audit.write
request_received(pdf_bytes, meta, force_new_version) ==
    LET correlation_id == <<"corr", Len(inflight) + 1>>
        L == NewRequest(pdf_bytes, meta, force_new_version, correlation_id)
    IN /\ inflight' = Append(inflight,
            IF MissingFields(Rules, meta) # {}
                THEN Raise(L, 400, "Missing required fields")
            ELSE IF PdfSizeMb(pdf_bytes) > Rules.max_pdf_mb
                THEN Raise(L, 400, "PDF too large")
            ELSE L)
       /\ UNCHANGED <<settings, prompts, llm_runs, documents, document_versions, evidence_files,
                      primary_axis_suggestions, derived_artifacts, chunks, soi_versions,
                      soi_documents, audit_log, objects, bus, responses, worker, now, calls>>

\* AuditService.last_hash_for_entity: the SELECT of audit.write
audit_last_hash_for_entity ==
    \E i \in DOMAIN inflight :
    /\ At(i, "last_hash_for_entity")
    /\ LET L == inflight[i] IN
        inflight' = [inflight EXCEPT ![i] =
            [L EXCEPT !.pc = "insert_audit_log",
                      !.prev = last_hash_for_entity(audit_log, L.audit.entity_type,
                                                    L.audit.entity_id)]]
    /\ UNCHANGED <<settings, prompts, llm_runs, documents, document_versions, evidence_files,
                   primary_axis_suggestions, derived_artifacts, chunks, soi_versions,
                   soi_documents, audit_log, objects, bus, responses, worker, now, calls>>

\* the INSERT of audit.write, with the prev_event_hash read before
audit_insert ==
    \E i \in DOMAIN inflight :
    /\ At(i, "insert_audit_log")
    /\ LET L == inflight[i] IN
        /\ audit_log' = AuditService_insert(audit_log, L.audit.entity_type, L.audit.entity_id,
                                            L.audit.action, L.actor, L.correlation_id,
                                            L.audit.details, L.prev)
        /\ inflight' = [inflight EXCEPT ![i] = AfterAudit(L, settings)]
    /\ now' = now + 1
    /\ UNCHANGED <<settings, prompts, llm_runs, documents, document_versions, evidence_files,
                   primary_axis_suggestions, derived_artifacts, chunks, soi_versions,
                   soi_documents, objects, bus, responses, worker, calls>>

\* audit.write as one step: its SELECT and its INSERT with nothing in between
audit_write ==
    \E i \in DOMAIN inflight :
    /\ At(i, "last_hash_for_entity")
    /\ LET L == inflight[i] IN
        /\ audit_log' = AuditService_write(audit_log, L.audit.entity_type, L.audit.entity_id,
                                           L.audit.action, L.actor, L.correlation_id,
                                           L.audit.details)
        /\ inflight' = [inflight EXCEPT ![i] = AfterAudit(L, settings)]
    /\ now' = now + 1
    /\ UNCHANGED <<settings, prompts, llm_runs, documents, document_versions, evidence_files,
                   primary_axis_suggestions, derived_artifacts, chunks, soi_versions,
                   soi_documents, objects, bus, responses, worker, calls>>

\* line 117, then lines 118-149
ingest_dedupe_match_existing ==
    \E i \in DOMAIN inflight :
    /\ At(i, "dedupe_match_existing")
    /\ \E fset \in FirstEvidenceRowChoices(evidence_files, inflight[i].sha) :
        LET L == inflight[i]
            existing == dedupe_match_existing(DB, L.sha, L.meta, fset)
            ex == CHOOSE e \in existing : TRUE
            axis == ResolvePrimaryAxis(L.meta)
        IN inflight' = [inflight EXCEPT ![i] =
                IF existing # {} /\ ~ L.force_new_version
                    THEN WriteAudit([L EXCEPT !.document_id = ex.document_id,
                                              !.version_id = ex.version_id,
                                              !.file_id = ex.file_id],
                                    "version", ex.version_id,
                                    "EPIC1.DEDUP.SHORTCIRCUIT_RETURNED",
                                    [raw_sha256 |-> L.sha], "select_primary_axis_source")
                    ELSE [L EXCEPT !.pc = "find_document_by_metadata", !.meta = axis.meta,
                                   !.primary_axis_value = axis.value,
                                   !.primary_axis_source = axis.source]]
    /\ UNCHANGED <<settings, prompts, llm_runs, documents, document_versions, evidence_files,
                   primary_axis_suggestions, derived_artifacts, chunks, soi_versions,
                   soi_documents, audit_log, objects, bus, responses, worker, now, calls>>

\* lines 128-135: the SELECT of the short circuit and its return
ingest_return_existing ==
    \E i \in DOMAIN inflight :
    /\ At(i, "select_primary_axis_source")
    /\ LET L == inflight[i] IN
        inflight' = [inflight EXCEPT ![i] =
            [L EXCEPT !.pc = "publish",
                      !.res = Response(200, "DEDUP_RETURN_EXISTING", "", L.correlation_id,
                                       L.document_id, L.version_id, L.file_id, L.sha,
                                       Row(documents, "document_id",
                                           L.document_id).primary_axis_source, "")]]
    /\ UNCHANGED <<settings, prompts, llm_runs, documents, document_versions, evidence_files,
                   primary_axis_suggestions, derived_artifacts, chunks, soi_versions,
                   soi_documents, audit_log, objects, bus, responses, worker, now, calls>>

\* lines 151-169
ingest_find_document_by_metadata ==
    \E i \in DOMAIN inflight :
    /\ At(i, "find_document_by_metadata")
    /\ LET L == inflight[i]
           docs == find_document_by_metadata(documents, L.meta.title, L.meta.jurisdiction,
                                             L.meta.regulation_family, L.meta.instrument_type)
           doc == CHOOSE d \in docs : TRUE
       IN inflight' = [inflight EXCEPT ![i] =
            IF docs = {} THEN [L EXCEPT !.pc = "create_document", !.no_doc = TRUE]
            ELSE IF PrimaryAxisMismatch(L.meta, doc)
                THEN Raise(L, 400, "primary_axis mismatch for existing document")
            ELSE [L EXCEPT !.pc = "create_version", !.document_id = doc.document_id,
                           !.created_new_doc = FALSE,
                           !.primary_axis_source_out = doc.primary_axis_source]]
    /\ UNCHANGED <<settings, prompts, llm_runs, documents, document_versions, evidence_files,
                   primary_axis_suggestions, derived_artifacts, chunks, soi_versions,
                   soi_documents, audit_log, objects, bus, responses, worker, now, calls>>

\* the unique key documents(title, jurisdiction, regulation_family, instrument_type)
\* refuses the row
DocumentsUniqueViolation(docs, meta) ==
    find_document_by_metadata(docs, meta.title, meta.jurisdiction, meta.regulation_family,
                              meta.instrument_type) # {}

\* lines 171-180: the INSERT of create_document.  The error of the unique key is caught
\* nowhere in ingest_request or in the route: the request ends with status 500
ingest_create_document ==
    \E i \in DOMAIN inflight :
    /\ At(i, "create_document")
    /\ LET L == inflight[i] IN
        IF DocumentsUniqueViolation(documents, L.meta)
            THEN /\ inflight' = [inflight EXCEPT ![i] = Raise(L, 500, "UniqueViolation")]
                 /\ UNCHANGED <<documents, now>>
            ELSE /\ documents' = create_document(documents, L.meta.title, L.meta.jurisdiction,
                                                 L.meta.regulation_family,
                                                 L.meta.instrument_type, L.primary_axis_value,
                                                 L.primary_axis_source)
                 /\ now' = now + 1
                 /\ inflight' = [inflight EXCEPT ![i] =
                        [L EXCEPT !.pc = "create_version",
                                  !.document_id = NewDocumentId(documents),
                                  !.created_new_doc = TRUE,
                                  !.primary_axis_source_out = L.primary_axis_source]]
    /\ UNCHANGED <<settings, prompts, llm_runs, document_versions, evidence_files, primary_axis_suggestions,
                   derived_artifacts, chunks, soi_versions, soi_documents, audit_log, objects,
                   bus, responses, worker, calls>>

\* lines 183-194
ingest_create_version ==
    \E i \in DOMAIN inflight :
    /\ At(i, "create_version")
    /\ LET L == inflight[i]
           err == create_version_error(document_versions, L.document_id,
                                       L.meta.parent_version_id, "PENDING")
       IN IF err # ""
            THEN /\ inflight' = [inflight EXCEPT ![i] = Raise(L, 400, err)]
                 /\ UNCHANGED <<document_versions, now>>
            ELSE /\ document_versions' =
                        create_version(document_versions, L.document_id, L.meta.tenant_id,
                                       L.meta.effective_year, L.actor, L.sha,
                                       L.meta.parent_version_id, NULL, "PENDING")
                 /\ now' = now + 1
                 /\ inflight' = [inflight EXCEPT ![i] =
                        [L EXCEPT !.pc = "find_by_sha",
                                  !.version_id = NewVersionId(document_versions)]]
    /\ UNCHANGED <<settings, prompts, llm_runs, documents, evidence_files, primary_axis_suggestions,
                   derived_artifacts, chunks, soi_versions, soi_documents, audit_log, objects,
                   bus, responses, worker, calls>>

\* lines 197-199
ingest_find_by_sha ==
    \E i \in DOMAIN inflight :
    /\ At(i, "find_by_sha")
    /\ LET L == inflight[i]
           evidence_row == find_by_sha(evidence_files, L.sha)
       IN inflight' = [inflight EXCEPT ![i] =
            IF evidence_row # {} /\ L.force_new_version
                THEN [L EXCEPT !.pc = "set_version_file_id", !.reuse = TRUE,
                               !.file_id = (CHOOSE f \in evidence_row : TRUE).file_id]
                ELSE [L EXCEPT !.pc = "create_evidence", !.reuse = FALSE]]
    /\ UNCHANGED <<settings, prompts, llm_runs, documents, document_versions, evidence_files,
                   primary_axis_suggestions, derived_artifacts, chunks, soi_versions,
                   soi_documents, audit_log, objects, bus, responses, worker, now, calls>>

\* lines 201-206
ingest_create_evidence ==
    \E i \in DOMAIN inflight :
    /\ At(i, "create_evidence")
    /\ LET L == inflight[i]
           D == create_evidence(Tick(DB), settings.STORAGE_MODE, L.sha, L.pdf_bytes,
                                L.document_id, L.version_id)
       IN /\ evidence_files' = D.evidence_files
          /\ objects' = D.objects
          /\ now' = D.now
          /\ inflight' = [inflight EXCEPT ![i] =
                [L EXCEPT !.pc = "set_version_file_id",
                          !.file_id = NewFileId(evidence_files)]]
    /\ UNCHANGED <<settings, prompts, llm_runs, documents, document_versions, primary_axis_suggestions,
                   derived_artifacts, chunks, soi_versions, soi_documents, audit_log, bus,
                   responses, worker, calls>>

\* lines 209-211
ingest_set_version_file_id ==
    \E i \in DOMAIN inflight :
    /\ At(i, "set_version_file_id")
    /\ LET L == inflight[i] IN
        /\ document_versions' = set_version_file_id(document_versions, L.version_id,
                                                    L.file_id, now + 1)
        /\ inflight' = [inflight EXCEPT ![i] =
            IF L.meta.parent_version_id # NULL
                THEN [L EXCEPT !.pc = "mark_parent_superseded"]
                ELSE AfterAudit([L EXCEPT !.then = "version_created"], settings)]
    /\ now' = now + 1
    /\ UNCHANGED <<settings, prompts, llm_runs, documents, evidence_files, primary_axis_suggestions,
                   derived_artifacts, chunks, soi_versions, soi_documents, audit_log, objects,
                   bus, responses, worker, calls>>

\* lines 212-220
ingest_mark_parent_superseded ==
    \E i \in DOMAIN inflight :
    /\ At(i, "mark_parent_superseded")
    /\ LET L == inflight[i] IN
        /\ document_versions' = mark_parent_superseded(document_versions,
                                                       L.meta.parent_version_id)
        /\ inflight' = [inflight EXCEPT ![i] =
            WriteAudit(L, "version", L.meta.parent_version_id,
                       "EPIC1.PARENT_VERSION_SUPERSEDED",
                       [child_version_id |-> L.version_id], "version_created")]
    /\ now' = now + 1
    /\ UNCHANGED <<settings, prompts, llm_runs, documents, evidence_files, primary_axis_suggestions,
                   derived_artifacts, chunks, soi_versions, soi_documents, audit_log, objects,
                   bus, responses, worker, calls>>

\* lines 233-255
ingest_upsert_primary_axis_suggestion ==
    \E i \in DOMAIN inflight :
    /\ At(i, "upsert_primary_axis_suggestion")
    /\ LET L == inflight[i]
           sug == suggest_primary_axis(L.meta)
       IN /\ primary_axis_suggestions' =
                upsert_primary_axis_suggestion(primary_axis_suggestions, L.version_id, sug[1],
                                               LLM_MODEL_NAME, LLM_MODEL_VERSION, sug[2],
                                               sug[3])
          /\ inflight' = [inflight EXCEPT ![i] =
                WriteAudit(L, "version", L.version_id, "EPIC1.LLM.PRIMARY_AXIS_SUGGESTED",
                           [suggested_axis |-> sug[1], confidence |-> sug[2],
                            model_name |-> LLM_MODEL_NAME,
                            model_version |-> LLM_MODEL_VERSION], "return")]
    /\ now' = now + 1
    /\ UNCHANGED <<settings, prompts, llm_runs, documents, document_versions, evidence_files, derived_artifacts,
                   chunks, soi_versions, soi_documents, audit_log, objects, bus, responses,
                   worker, calls>>

\* routes_epic1.py lines 69-100 for a request that returned from ingest_request: the
\* event is sent if there is one to send, then the response goes back to the client
route_publish ==
    \E i \in DOMAIN inflight :
    /\ At(i, "publish")
    /\ bus' = publish_version_created(inflight[i])
    /\ responses' = Append(responses,
            [pdf_bytes |-> inflight[i].pdf_bytes, meta |-> inflight[i].request_meta,
             force_new_version |-> inflight[i].force_new_version, res |-> inflight[i].res])
    /\ inflight' = [inflight EXCEPT ![i] = [inflight[i] EXCEPT !.pc = "done"]]
    /\ UNCHANGED <<settings, prompts, llm_runs, documents, document_versions, evidence_files,
                   primary_axis_suggestions, derived_artifacts, chunks, soi_versions,
                   soi_documents, audit_log, objects, worker, now, calls>>

\* the exception of a request that raised goes back to the client as its status
route_respond ==
    \E i \in DOMAIN inflight :
    /\ At(i, "respond")
    /\ responses' = Append(responses,
            [pdf_bytes |-> inflight[i].pdf_bytes, meta |-> inflight[i].request_meta,
             force_new_version |-> inflight[i].force_new_version, res |-> inflight[i].res])
    /\ inflight' = [inflight EXCEPT ![i] = [inflight[i] EXCEPT !.pc = "done"]]
    /\ UNCHANGED <<settings, prompts, llm_runs, documents, document_versions, evidence_files,
                   primary_axis_suggestions, derived_artifacts, chunks, soi_versions,
                   soi_documents, audit_log, objects, bus, worker, now, calls>>

----------------------------------------------------------------------------
(* app/services/soi_projector.py *)

\* payload.get(key)
payload_get(payload, key) == IF key \in DOMAIN payload THEN payload[key] ELSE NULL

\* ON CONFLICT (version_id) adds to artifact_count instead of setting it
upsert_soi_version_Accumulates(rows, v, at) ==
    IF Has(rows, "version_id", v.version_id)
        THEN {IF r.version_id = v.version_id
                THEN [r EXCEPT !.status = v.status, !.artifact_count = @ + 1, !.updated_at = at]
                ELSE r : r \in rows}
        ELSE rows \cup {[version_id |-> v.version_id, document_id |-> v.document_id,
                         status |-> v.status, version_label |-> NULL, effective_date |-> NULL,
                         uploaded_by |-> v.uploaded_by, uploaded_at |-> v.uploaded_at,
                         raw_sha256 |-> v.raw_sha256, artifact_count |-> 0,
                         updated_at |-> at]}

\* INSERT INTO soi_versions ... ON CONFLICT (version_id) DO UPDATE
upsert_soi_version(rows, v, at) ==
    IF Has(rows, "version_id", v.version_id)
        THEN {IF r.version_id = v.version_id
                THEN [r EXCEPT !.status = v.status, !.artifact_count = 0, !.updated_at = at]
                ELSE r : r \in rows}
        ELSE rows \cup {[version_id |-> v.version_id, document_id |-> v.document_id,
                         status |-> v.status, version_label |-> NULL, effective_date |-> NULL,
                         uploaded_by |-> v.uploaded_by, uploaded_at |-> v.uploaded_at,
                         raw_sha256 |-> v.raw_sha256, artifact_count |-> 0,
                         updated_at |-> at]}

\* INSERT INTO soi_documents ... ON CONFLICT (document_id) DO UPDATE
upsert_soi_document(rows, d, v, at) ==
    IF Has(rows, "document_id", d.document_id)
        THEN {IF r.document_id = d.document_id
                THEN [r EXCEPT !.latest_version_id = v.version_id, !.latest_status = v.status,
                               !.updated_at = at]
                ELSE r : r \in rows}
        ELSE rows \cup {[document_id |-> d.document_id, title |-> d.title,
                         jurisdiction |-> d.jurisdiction,
                         regulation_family |-> d.regulation_family,
                         instrument_type |-> d.instrument_type,
                         primary_axis |-> d.primary_axis, latest_version_id |-> v.version_id,
                         latest_status |-> v.status, updated_at |-> at]}

\* UPDATE soi_versions SET artifact_count=%s, updated_at=now() WHERE version_id=%s
update_artifact_count(rows, version_id, c, at) ==
    {IF r.version_id = version_id
        THEN [r EXCEPT !.artifact_count = c, !.updated_at = at] ELSE r : r \in rows}

ProjectedEvents ==
    {"EPIC1.REGISTRY.VERSION_CREATED", "EPIC1.INGESTION.COMPLETED", "EPIC1.INGESTION.FAILED"}

\* lines 10-34: the two upserts; returned: the method returned before its second block
project_upserts(D, event_type, payload) ==
    LET vid == payload_get(payload, "version_id")
        vset == {v \in D.document_versions : v.version_id = vid}
        v == CHOOSE x \in vset : TRUE
        dset == {d \in D.documents : d.document_id = v.document_id}
        d == CHOOSE x \in dset : TRUE
        D1 == [Tick(D) EXCEPT !.soi_versions = upsert_soi_version(@, v, D.now + 1)]
        D2 == IF dset = {} THEN D1
              ELSE [Tick(D1) EXCEPT !.soi_documents = upsert_soi_document(@, d, v, D1.now + 1)]
    IN IF event_type \notin ProjectedEvents THEN [db |-> D, returned |-> FALSE]
       ELSE IF vid = NULL \/ vset = {} THEN [db |-> D, returned |-> TRUE]
       ELSE [db |-> D2, returned |-> FALSE]

\* SoIProjector.project; every statement commits by itself and reads its own now()
project(D, event_type, payload) ==
    LET first == project_upserts(D, event_type, payload)
        D2 == first.db
        vid == payload_get(payload, "version_id")
        c == Cardinality({a \in D2.derived_artifacts : a.version_id = vid})
    IN IF first.returned \/ event_type # "EPIC1.INGESTION.COMPLETED" \/ vid = NULL THEN D2
       ELSE [Tick(D2) EXCEPT !.soi_versions = update_artifact_count(@, vid, c, D2.now + 1)]

----------------------------------------------------------------------------
(* app/workers/worker_canonicalize.py *)

NewChunkId(rows, i) == <<"chunk", Cardinality(rows) + i>>

\* lines 122-131: one chunks row per chunk
insert_chunks(rows, version_id, chunk_set_artifact_id, chunk_list) ==
    rows \cup {[chunk_id |-> NewChunkId(rows, i), version_id |-> version_id,
                chunk_set_artifact_id |-> chunk_set_artifact_id,
                chunk_schema_version |-> CHUNK_SCHEMA_VERSION,
                start_char |-> chunk_list[i].start_char, end_char |-> chunk_list[i].end_char,
                page_start |-> chunk_list[i].page_start, page_end |-> chunk_list[i].page_end,
                text_sha256 |-> chunk_list[i].text_sha256] : i \in 1..Len(chunk_list)}

\* lines 70-168, reached when settings.CHUNK_MAX_CHARS can be read: D is the database
\* after store_canonical, canonical_ids what it returned
canonicalize_index(D, ev, f, x, canonical_ids) ==
    LET version_id == ev.payload.version_id
        chunked == chunk(x.stable_text, x.page_map, CHUNK_MAX_CHARS, CHUNK_OVERLAP_CHARS)
        chunk_set_obj == [version_id |-> version_id,
                          chunk_schema_version |-> CHUNK_SCHEMA_VERSION,
                          chunker_version |-> CHUNKER_VERSION,
                          manifest |-> chunked.manifest, chunks |-> chunked.chunks]
        chunk_set_artifact_id == NewArtifactId(D.derived_artifacts)
        D1 == store_chunk_set(D, settings.STORAGE_MODE, version_id, chunk_set_obj,
                              CHUNKER_VERSION \o "|" \o CHUNK_SCHEMA_VERSION)
        retrieval_manifest ==
            [version_id |-> version_id, raw_sha256 |-> f.sha256,
             canonical_artifacts |-> canonical_ids,
             chunk_sets |-> <<[chunk_set_id |-> chunk_set_artifact_id,
                               chunker_version |-> CHUNKER_VERSION,
                               chunk_schema_version |-> CHUNK_SCHEMA_VERSION]>>,
             embedding_sets |-> <<>>,
             policies |-> [citation_required |-> TRUE, max_context_tokens |-> 8192],
             provenance |-> [extractor_version |-> EXTRACTOR_VERSION,
                             layout_version |-> LAYOUT_VERSION,
                             chunker_version |-> CHUNKER_VERSION]]
        retrieval_manifest_id == NewArtifactId(D1.derived_artifacts)
        D2 == store_json_artifact(D1, settings.STORAGE_MODE, version_id, "retrieval_manifest",
                                  retrieval_manifest, "manifest", "retrieval_manifest@1.0.0",
                                  <<"indexes", version_id, "retrieval_manifest.json">>)
        D3 == [D2 EXCEPT !.chunks = insert_chunks(@, version_id, chunk_set_artifact_id,
                                                  chunked.chunks)]
        D4 == [D3 EXCEPT !.document_versions = set_status_pending_to_active(@, version_id)]
        D5 == [D4 EXCEPT !.document_versions =
                  set_artifacts_json(@, version_id,
                      {<<"stable_text_id", canonical_ids.stable_text_id>>,
                       <<"page_map_id", canonical_ids.page_map_id>>,
                       <<"layout_map_id", canonical_ids.layout_map_id>>,
                       <<"chunk_set_id", chunk_set_artifact_id>>,
                       <<"retrieval_manifest_id", retrieval_manifest_id>>})]
    IN [db |-> D5, crashed |-> FALSE,
        events |-> <<DomainEvent("EPIC1.LLM.DERIVATION_REQUESTED", ev.correlation_id, ev.actor,
                                 "version", version_id,
                                 [version_id |-> version_id,
                                  stable_text_artifact_id |-> canonical_ids.stable_text_id]),
                     DomainEvent("EPIC1.INGESTION.COMPLETED", ev.correlation_id, ev.actor,
                                 "version", version_id, [version_id |-> version_id])>>]

\* one message of the consumer loop; read_ok: the evidence bytes could be read
canonicalize(ev, read_ok) ==
    LET version_id == ev.payload.version_id
        file_id == ev.payload.file_id
        fset == {f \in evidence_files : f.file_id = file_id}
        f == CHOOSE x \in fset : TRUE
        loc == parse_storage_uri(f.storage_uri)[2]
        failed(reason) ==
            [db |-> Audit([DB EXCEPT !.document_versions =
                              set_status_pending_to_failed(@, version_id)],
                          "version", version_id, "EPIC1.INGESTION.FAILED", ev.actor,
                          ev.correlation_id, [reason |-> reason]),
             crashed |-> FALSE, events |-> <<>>]
        x == extract(objects[loc])
        n == Cardinality(derived_artifacts)
        canonical_ids == [stable_text_id |-> <<"art", n + 1>>, page_map_id |-> <<"art", n + 2>>,
                          layout_map_id |-> <<"art", n + 3>>]
        D1 == store_canonical(DB, settings.STORAGE_MODE, version_id, x.stable_text,
                              x.page_map, x.layout_map)
    IN IF ev.event_type # "EPIC1.REGISTRY.VERSION_CREATED"
        THEN [db |-> DB, crashed |-> FALSE, events |-> <<>>]
       ELSE IF fset = {} THEN failed("evidence_files not found")
       ELSE IF ~ read_ok \/ loc \notin DOMAIN objects THEN failed("evidence read failed")
       ELSE IF objects[loc] \in CorruptPdfs THEN failed("canonicalization failed")
       \* store_canonical, then settings.CHUNK_MAX_CHARS: not a field of Settings, so the
       \* attribute read raises AttributeError outside every try and main() unwinds
       ELSE IF "CHUNK_MAX_CHARS" \notin SettingsFields
        THEN [db |-> D1, crashed |-> TRUE, events |-> <<>>]
       ELSE canonicalize_index(D1, ev, f, x, canonical_ids)

canonicalize_message ==
    /\ worker.alive
    /\ worker.offset < Len(bus)
    /\ \E read_ok \in BOOLEAN :
        LET out == canonicalize(bus[worker.offset + 1], read_ok) IN
        /\ Commit(out.db)
        /\ worker' = IF out.crashed
                       THEN [worker EXCEPT !.alive = FALSE]
                       ELSE [worker EXCEPT !.offset = @ + 1]
        /\ bus' = bus \o out.events
    /\ UNCHANGED <<settings, prompts, llm_runs, responses, calls, inflight>>

\* the worker process is started again; the message it died on was committed or not
canonicalize_restart ==
    /\ ~ worker.alive
    /\ \/ worker' = [worker EXCEPT !.alive = TRUE, !.offset = @ + 1]
       \/ /\ worker.redelivered < MaxRedeliveries
          /\ worker' = [worker EXCEPT !.alive = TRUE, !.redelivered = @ + 1]
    /\ UNCHANGED <<settings, prompts, llm_runs, documents, document_versions, evidence_files,
                   primary_axis_suggestions, derived_artifacts, chunks, soi_versions,
                   soi_documents, audit_log, objects, bus,
                   responses, now, calls, inflight>>

\* at-least-once delivery: the consumer group is rewound to an earlier offset
canonicalize_redeliver ==
    /\ worker.alive
    /\ worker.redelivered < MaxRedeliveries
    /\ \E o \in 0..(worker.offset - 1) :
        worker' = [worker EXCEPT !.offset = o, !.redelivered = @ + 1]
    /\ UNCHANGED <<settings, prompts, llm_runs, documents, document_versions, evidence_files,
                   primary_axis_suggestions, derived_artifacts, chunks, soi_versions,
                   soi_documents, audit_log, objects, bus,
                   responses, now, calls, inflight>>

----------------------------------------------------------------------------
(* The system: the upload API and the canonicalize worker over one database *)

AllFiles == {"A.pdf", "B.pdf"}

M1 == [title |-> "EU CBAM", jurisdiction |-> "EU", regulation_family |-> "carbon",
       instrument_type |-> "regulation"]
M2 == [title |-> "EU Battery Regulation", jurisdiction |-> "EU",
       regulation_family |-> "battery", instrument_type |-> "regulation"]

AllMetas == {M1, M2}

\* primary_axis as the operator sends it: absent, blank, a value
AllAxes == {"", " ", "theme"}

EmptyDatabase ==
    /\ documents = {}
    /\ document_versions = {}
    /\ evidence_files = {}
    /\ primary_axis_suggestions = {}
    /\ derived_artifacts = {}
    /\ chunks = {}
    /\ soi_versions = {}
    /\ soi_documents = {}
    /\ audit_log = <<>>
    /\ objects = <<>>
    /\ now = 0

Init ==
    /\ settings \in {Settings("s3", llm) : llm \in BOOLEAN}
    /\ EmptyDatabase
    /\ bus = <<>>
    /\ responses = <<>>
    /\ worker = [alive |-> TRUE, offset |-> 0, redelivered |-> 0]
    /\ calls = <<>>
    /\ inflight = <<>>
    /\ prompts = {}
    /\ llm_runs = {}

Next ==
    \/ upload_regulation(AllFiles, AllMetas, AllAxes, BOOLEAN, ParentChoices, MaxRequests)
    \/ canonicalize_message
    \/ canonicalize_restart
    \/ canonicalize_redeliver

Spec == Init /\ [][Next]_vars

----------------------------------------------------------------------------
(* Uploads of one file under two metadata tuples, every request valid *)

NextDedupe ==
    \/ upload_regulation({"A.pdf"}, AllMetas, {"theme"}, BOOLEAN, {NULL}, MaxUploads)
    \/ canonicalize_message
    \/ canonicalize_restart

SpecDedupe == Init /\ [][NextDedupe]_vars

----------------------------------------------------------------------------
(* The registry under the upload API, the worker and any other caller of the *)
(* three status methods of RegistryService                                   *)

StatusOf(versions, version_id) == Row(versions, "version_id", version_id).status

registry_call(op, version_id, versions) ==
    /\ Len(calls) < MaxRegistryCalls
    /\ document_versions' = versions
    /\ calls' = Append(calls, [op |-> op, version_id |-> version_id,
                               before |-> StatusOf(document_versions, version_id),
                               after |-> StatusOf(versions, version_id)])
    /\ UNCHANGED <<settings, prompts, llm_runs, documents, evidence_files, primary_axis_suggestions,
                   derived_artifacts, chunks, soi_versions,
                   soi_documents, audit_log, objects, bus, responses, worker, now, inflight>>

call_mark_parent_superseded ==
    \E v \in document_versions :
        registry_call("mark_parent_superseded", v.version_id,
                      mark_parent_superseded(document_versions, v.version_id))

call_set_status_pending_to_active ==
    \E v \in document_versions :
        registry_call("set_status_pending_to_active", v.version_id,
                      set_status_pending_to_active(document_versions, v.version_id))

call_set_status_pending_to_failed ==
    \E v \in document_versions :
        registry_call("set_status_pending_to_failed", v.version_id,
                      set_status_pending_to_failed(document_versions, v.version_id))

InitRegistry ==
    /\ settings = Settings("s3", FALSE)
    /\ EmptyDatabase
    /\ bus = <<>>
    /\ responses = <<>>
    /\ worker = [alive |-> TRUE, offset |-> 0, redelivered |-> 0]
    /\ calls = <<>>
    /\ inflight = <<>>
    /\ prompts = {}
    /\ llm_runs = {}

NextRegistry ==
    \/ upload_regulation({"A.pdf"}, {M1}, {"theme"}, BOOLEAN, ParentChoices, MaxRequests)
    \/ canonicalize_message
    \/ canonicalize_restart
    \/ call_mark_parent_superseded
    \/ call_set_status_pending_to_active
    \/ call_set_status_pending_to_failed

SpecRegistry == InitRegistry /\ [][NextRegistry]_vars

----------------------------------------------------------------------------
(* The registry under the upload API and any other caller of set_version_file_id *)

\* RegistryService.set_version_file_id called on any version with any evidence file
call_set_version_file_id ==
    /\ Len(calls) < MaxRegistryCalls
    /\ \E v \in document_versions, f \in evidence_files :
        /\ document_versions' = set_version_file_id(document_versions, v.version_id,
                                                    f.file_id, now + 1)
        /\ calls' = Append(calls, [op |-> "set_version_file_id", version_id |-> v.version_id,
                                   file_id |-> f.file_id])
    /\ now' = now + 1
    /\ UNCHANGED <<settings, prompts, llm_runs, documents, evidence_files, primary_axis_suggestions,
                   derived_artifacts, chunks, soi_versions,
                   soi_documents, audit_log, objects, bus, responses, worker, inflight>>

NextFileId ==
    \/ upload_regulation(AllFiles, {M1}, {"theme"}, BOOLEAN, {NULL}, MaxRequests)
    \/ call_set_version_file_id

SpecFileId == InitRegistry /\ [][NextFileId]_vars

----------------------------------------------------------------------------
(* app/workers/worker_soi.py: the SoI worker beside the upload API and the canonicalize *)
(* worker.  Its consumer group is delivered each message at least once, so the events *)
(* it takes are drawn from the bus and from the event types and payloads of the topic *)

SoiEventTypes == ProjectedEvents \cup {"EPIC1.LLM.DERIVATION_REQUESTED"}

\* payloads with the version_id of a version, of no version, None, and without the key
SoiPayloads ==
    {[version_id |-> <<"ver", n>>] : n \in 1..MaxRequests}
        \cup {[version_id |-> NULL], [document_id |-> <<"doc", 1>>]}

SoiEvents ==
    {[event_type |-> t, payload |-> p] : t \in SoiEventTypes, p \in SoiPayloads}
        \cup {[event_type |-> bus[k].event_type, payload |-> bus[k].payload] : k \in DOMAIN bus}

\* what a write by anyone changes
Snapshot(D) == [D EXCEPT !.objects = DOMAIN @, !.audit_log = Len(@)]

\* one message of the consumer loop; calls keeps the last message taken, how many were
\* taken, and whether the message before was the same with no write since
soi_message ==
    /\ (IF calls = <<>> THEN 0 ELSE calls[1].n) < MaxProjections
    /\ \E ev \in SoiEvents :
        LET D == project(DB, ev.event_type, ev.payload) IN
        /\ Commit(D)
        /\ calls' = <<[event_type |-> ev.event_type, payload |-> ev.payload,
                       n |-> IF calls = <<>> THEN 1 ELSE calls[1].n + 1,
                       again |-> /\ calls # <<>>
                                 /\ calls[1].event_type = ev.event_type
                                 /\ calls[1].payload = ev.payload
                                 /\ calls[1].after = Snapshot(DB),
                       after |-> Snapshot(D)]>>
    /\ UNCHANGED <<settings, prompts, llm_runs, bus, responses, worker, inflight>>

NextSoi ==
    \/ upload_regulation({"A.pdf"}, {M1}, {"theme"}, BOOLEAN, {NULL}, MaxRequests)
    \/ canonicalize_message
    \/ canonicalize_restart
    \/ soi_message

SpecSoi == InitRegistry /\ [][NextSoi]_vars

----------------------------------------------------------------------------
(* Upload requests served at the same time: each is taken through ingest_request and *)
(* the route one statement at a time, in any interleaving with the others.  An       *)
(* audit.write is one step here; its two statements interleave in SpecAudit          *)

\* an operator sends an upload while others may be in progress
upload_arrives(Files, Metas, Axes, Forces, bound) ==
    /\ Len(inflight) < bound
    /\ \E pdf_bytes \in Files, m \in Metas, primary_axis \in Axes, force_new_version \in Forces :
       \E parent_version_id \in {NULL} \cup {v.version_id : v \in document_versions} :
            request_received(pdf_bytes, Meta(m, primary_axis, parent_version_id),
                             force_new_version)

InitConcurrent ==
    /\ settings \in {Settings("s3", llm) : llm \in BOOLEAN}
    /\ EmptyDatabase
    /\ bus = <<>>
    /\ responses = <<>>
    /\ worker = [alive |-> TRUE, offset |-> 0, redelivered |-> 0]
    /\ calls = <<>>
    /\ inflight = <<>>
    /\ prompts = {}
    /\ llm_runs = {}

NextConcurrent ==
    \/ upload_arrives({"A.pdf"}, {M1}, {"theme"}, {FALSE}, MaxConcurrent)
    \/ audit_write
    \/ ingest_dedupe_match_existing
    \/ ingest_return_existing
    \/ ingest_find_document_by_metadata
    \/ ingest_create_document
    \/ ingest_create_version
    \/ ingest_find_by_sha
    \/ ingest_create_evidence
    \/ ingest_set_version_file_id
    \/ ingest_mark_parent_superseded
    \/ ingest_upsert_primary_axis_suggestion
    \/ route_publish
    \/ route_respond

SpecConcurrent == InitConcurrent /\ [][NextConcurrent]_vars

----------------------------------------------------------------------------
(* Lines 80-115 of ingest_request for requests served at the same time: each writes *)
(* its three audit rows of entity ("system", "epic1"), the SELECT and the INSERT of  *)
(* every audit.write being statements of their own                                   *)

NextAudit ==
    \/ upload_arrives(AllFiles, AllMetas, {"theme"}, BOOLEAN, MaxConcurrent)
    \/ audit_last_hash_for_entity
    \/ audit_insert

SpecAudit == InitConcurrent /\ [][NextAudit]_vars

----------------------------------------------------------------------------
(* The upload API and the canonicalize worker under fair delivery: the consumer loop *)
(* takes a message whenever one is waiting, and a dead worker is started again       *)

NextLive ==
    \/ upload_regulation(AllFiles, {M1}, {"theme"}, BOOLEAN, {NULL}, MaxRequests)
    \/ canonicalize_message
    \/ canonicalize_restart

SpecLive ==
    /\ InitRegistry
    /\ [][NextLive]_vars
    /\ WF_vars(canonicalize_message)
    /\ WF_vars(canonicalize_restart)

----------------------------------------------------------------------------
(* app/workers/worker_soi.py under fair delivery: the consumer group epic1-soi is   *)
(* delivered the messages of the topic in publication order, one whenever one is    *)
(* waiting; calls keeps the messages it has taken, so its offset is Len(calls)      *)

\* lines 12-14: one message of the consumer loop
soi_deliver ==
    /\ Len(calls) < Len(bus)
    /\ LET ev == bus[Len(calls) + 1] IN
        /\ Commit(project(DB, ev.event_type, ev.payload))
        /\ calls' = Append(calls, [event_type |-> ev.event_type, payload |-> ev.payload])
    /\ UNCHANGED <<settings, prompts, llm_runs, bus, responses, worker, inflight>>

NextSoiLive ==
    \/ upload_regulation(AllFiles, {M1}, {"theme"}, BOOLEAN, ParentChoices, MaxRequests)
    \/ canonicalize_message
    \/ canonicalize_restart
    \/ soi_deliver

SpecSoiLive ==
    /\ InitRegistry
    /\ [][NextSoiLive]_vars
    /\ WF_vars(canonicalize_message)
    /\ WF_vars(canonicalize_restart)
    /\ WF_vars(soi_deliver)

----------------------------------------------------------------------------
(* app/services/llm_orchestrator.py *)

sha256_str(s) == Sha256(utf8(s))

\* LLMClient.run, the stub: the purpose tag, then input_text[:800]
LLMClient_run(purpose, input_text) ==
    <<"[LLM:" \o purpose \o "] ">>
        \o SubSeq(input_text, 1, IF Len(input_text) < 800 THEN Len(input_text) ELSE 800)

NewRunId(runs) == <<"run", Cardinality(runs) + 1>>

\* LLMOrchestrator.summarize_for_indexing: D is the database, P and R the tables
\* prompts and llm_runs
summarize_for_indexing(D, P, R, mode, version_id, stable_text) ==
    LET prompt_template == "Summarize regulation for indexing; do not invent facts."
        prompt_hash == sha256_str(prompt_template)
        \* ON CONFLICT (prompt_hash) DO NOTHING
        P1 == IF \E q \in P : q.prompt_hash = prompt_hash THEN P
              ELSE P \cup {[prompt_hash |-> prompt_hash, prompt_template |-> prompt_template,
                            prompt_version |-> "v1"]}
        run_id == NewRunId(R)
        input_fingerprint == sha256_str(<<version_id, ":", prompt_hash, ":", sha256_str(stable_text)>>)
        run == [run_id |-> run_id, version_id |-> version_id,
                purpose |-> "summarize_for_indexing", model_name |-> "stub-llm",
                model_version |-> "0", prompt_hash |-> prompt_hash,
                input_fingerprint |-> input_fingerprint, status |-> "RUNNING",
                output_artifact_id |-> NULL]
        output == LLMClient_run("summarize_for_indexing", stable_text)
        artifact_id == NewArtifactId(D.derived_artifacts)
        D1 == register(D, mode, version_id, "llm_output", utf8(output),
                       <<"llm_outputs", version_id, run_id, ".txt">>,
                       "llm_orchestrator", "stub-0")
    IN [db |-> D1, prompts |-> P1,
        llm_runs |-> R \cup {[run EXCEPT !.output_artifact_id = artifact_id,
                                         !.status = "COMPLETED"]},
        res |-> [run_id |-> run_id, output_artifact_id |-> artifact_id]]

----------------------------------------------------------------------------
(* app/workers/worker_llm.py: the consumer group epic1-llm beside the upload API and *)
(* the canonicalize worker.  It is delivered each message at least once, so the      *)
(* events it takes are drawn from the bus and from the derivation requests the topic *)
(* can carry for the versions of the registry                                        *)

MissingArtifactId == <<"art", 0>>

LlmEvents ==
    {DomainEvent("EPIC1.LLM.DERIVATION_REQUESTED", <<"corr", v.version_id[2]>>, "op1",
                 "version", v.version_id,
                 [version_id |-> v.version_id, stable_text_artifact_id |-> aid]) :
        v \in document_versions,
        aid \in {a.artifact_id : a \in {x \in derived_artifacts : x.kind = "stable_text"}}
                    \cup {MissingArtifactId}}
        \cup {bus[k] : k \in DOMAIN bus}

\* the branch that also marks the version FAILED
llm_artifact_missing_MarksFailed(D, ev) ==
    Audit([D EXCEPT !.document_versions =
               set_status_pending_to_failed(@, ev.payload.version_id)],
          "version", ev.payload.version_id, "EPIC1.INGESTION.FAILED", ev.actor,
          ev.correlation_id, [reason |-> "stable_text artifact missing"])

\* lines 32-35: the audit row is all that is written
llm_artifact_missing(D, ev) ==
    Audit(D, "version", ev.payload.version_id, "EPIC1.INGESTION.FAILED", ev.actor,
          ev.correlation_id, [reason |-> "stable_text artifact missing"])

\* lines 22-52, one message: what it leaves in the database and what it publishes
llm_handle(ev) ==
    LET version_id == ev.payload.version_id
        aset == {a \in derived_artifacts : a.artifact_id = ev.payload.stable_text_artifact_id}
        a == CHOOSE x \in aset : TRUE
        stable_text == objects[parse_storage_uri(a.storage_uri)[2]][2].text
        s == summarize_for_indexing(DB, prompts, llm_runs, settings.STORAGE_MODE,
                                    version_id, stable_text)
    IN IF ev.event_type # "EPIC1.LLM.DERIVATION_REQUESTED"
        THEN [db |-> DB, prompts |-> prompts, llm_runs |-> llm_runs, events |-> <<>>]
       ELSE IF aset = {}
        THEN [db |-> llm_artifact_missing(DB, ev), prompts |-> prompts,
              llm_runs |-> llm_runs, events |-> <<>>]
       ELSE [db |-> Audit(s.db, "version", version_id, "EPIC1.LLM.DERIVATION_COMPLETED",
                          ev.actor, ev.correlation_id, s.res),
             prompts |-> s.prompts, llm_runs |-> s.llm_runs,
             events |-> <<DomainEvent("EPIC1.LLM.DERIVATION_COMPLETED", ev.correlation_id,
                                      ev.actor, "version", version_id,
                                      [version_id |-> version_id, run_id |-> s.res.run_id,
                                       output_artifact_id |-> s.res.output_artifact_id])>>]

\* one message of the consumer loop; calls keeps the messages taken
llm_message ==
    /\ Len(calls) < MaxLlmMessages
    /\ \E ev \in LlmEvents :
        LET out == llm_handle(ev) IN
        /\ Commit(out.db)
        /\ prompts' = out.prompts
        /\ llm_runs' = out.llm_runs
        /\ bus' = bus \o out.events
        /\ calls' = Append(calls, ev)
    /\ UNCHANGED <<settings, responses, worker, inflight>>

NextLlm ==
    \/ upload_regulation(AllFiles, {M1}, {"theme"}, {FALSE}, {NULL}, MaxRequests)
    \/ canonicalize_message
    \/ canonicalize_restart
    \/ llm_message

SpecLlm == InitRegistry /\ [][NextLlm]_vars

----------------------------------------------------------------------------
(* CanonicalTextPipeline.extract on any document of at most MaxPages pages *)

PageTexts == {<<>>, <<"a">>, <<" ", NL>>, <<"a", NL, NL, "b">>}

RECURSIVE SeqsUpTo(_, _)
\* the sequences over S of length at most n
SeqsUpTo(S, n) ==
    IF n = 0 THEN {<<>>}
    ELSE LET shorter == SeqsUpTo(S, n - 1) IN
         shorter \cup {Append(q, x) : q \in shorter, x \in S}

InitPipeline ==
    /\ settings = Settings("s3", FALSE)
    /\ EmptyDatabase
    /\ bus = <<>>
    /\ responses = <<>>
    /\ worker = [alive |-> TRUE, offset |-> 0, redelivered |-> 0]
    /\ calls \in {<<[op |-> "open", pages |-> pages]>> : pages \in SeqsUpTo(PageTexts, MaxPages)}
    /\ inflight = <<>>
    /\ prompts = {}
    /\ llm_runs = {}

call_extract ==
    /\ Len(calls) = 1
    /\ calls' = Append(calls, [op |-> "extract", pages |-> calls[1].pages,
                               out |-> extract_pages(calls[1].pages, <<>>)])
    /\ UNCHANGED <<settings, prompts, llm_runs, documents, document_versions, evidence_files,
                   primary_axis_suggestions, derived_artifacts, chunks, soi_versions,
                   soi_documents, audit_log, objects, bus,
                   responses, worker, now, inflight>>

NextPipeline == call_extract

SpecPipeline == InitPipeline /\ [][NextPipeline]_vars

----------------------------------------------------------------------------
(* SimpleDeterministicChunker.chunk on the stable_text and page_map of any document of *)
(* at most MaxPages pages of at most MaxPageLen characters                             *)

Alphabet == {"a", " ", NL}

InitChunker ==
    /\ settings = Settings("s3", FALSE)
    /\ EmptyDatabase
    /\ bus = <<>>
    /\ responses = <<>>
    /\ worker = [alive |-> TRUE, offset |-> 0, redelivered |-> 0]
    /\ calls \in {<<[op |-> "args",
                     stable_text |-> extract_pages(pages, <<>>).stable_text,
                     page_map |-> extract_pages(pages, <<>>).page_map,
                     max_chars |-> max_chars, overlap_chars |-> overlap_chars]>> :
                    pages \in SeqsUpTo(SeqsUpTo(Alphabet, MaxPageLen), MaxPages),
                    max_chars \in 1..MaxChars, overlap_chars \in 0..MaxOverlap}
    /\ inflight = <<>>
    /\ prompts = {}
    /\ llm_runs = {}

call_chunk ==
    /\ Len(calls) = 1
    /\ calls' = Append(calls, [op |-> "chunk", args |-> calls[1],
                               out |-> chunk(calls[1].stable_text, calls[1].page_map,
                                             calls[1].max_chars, calls[1].overlap_chars)])
    /\ UNCHANGED <<settings, prompts, llm_runs, documents, document_versions, evidence_files,
                   primary_axis_suggestions, derived_artifacts, chunks, soi_versions,
                   soi_documents, audit_log, objects, bus,
                   responses, worker, now, inflight>>

NextChunker == call_chunk

SpecChunker == InitChunker /\ [][NextChunker]_vars

----------------------------------------------------------------------------
(* SimpleDeterministicChunker.chunk loop by loop: calls[2] holds the locals of the one *)
(* call in progress, a step is one test of a while condition with the body it enters   *)

UNCHANGED_OutsideChunk ==
    UNCHANGED <<settings, prompts, llm_runs, documents, document_versions, evidence_files,
                primary_axis_suggestions, derived_artifacts, chunks, soi_versions,
                soi_documents, audit_log, objects, bus, responses, worker, now, inflight>>

ChunkAt(pc) == Len(calls) = 2 /\ calls[2].op = "chunk_locals" /\ calls[2].pc = pc

\* lines 26-35
chunk_enter ==
    /\ Len(calls) = 1
    /\ calls' = Append(calls,
            [op |-> "chunk_locals", pc |-> "while_i", i |-> 0, n |-> Len(calls[1].stable_text),
             max_len |-> chunk_policy(calls[1].max_chars, calls[1].overlap_chars).max_len,
             overlap |-> chunk_policy(calls[1].max_chars, calls[1].overlap_chars).overlap,
             start |-> 0, para_end |-> 0, chunk_list |-> <<>>])
    /\ UNCHANGED_OutsideChunk

\* line 49 and, when i < n, lines 50-54
chunk_while_i ==
    /\ ChunkAt("while_i")
    /\ LET L == calls[2]
           j == find_paragraph_break(calls[1].stable_text, L.i)
       IN calls' = [calls EXCEPT ![2] =
            IF L.i < L.n
                THEN [L EXCEPT !.pc = "while_start", !.start = L.i,
                               !.para_end = IF j = -1 THEN L.n ELSE j]
                ELSE [L EXCEPT !.pc = "return"]]
    /\ UNCHANGED_OutsideChunk

\* line 55 and, when start < para_end, lines 56-59; line 60 when the paragraph is done
chunk_while_start ==
    /\ ChunkAt("while_start")
    /\ LET L == calls[2]
           end == piece_end(L.start, L.max_len, L.para_end)
       IN calls' = [calls EXCEPT ![2] =
            IF L.start < L.para_end
                THEN [L EXCEPT !.start = next_start(L.start, end, L.overlap),
                               !.chunk_list = emit(L.chunk_list, calls[1].stable_text,
                                                   calls[1].page_map, L.start, end)]
                ELSE [L EXCEPT !.pc = "while_i", !.i = L.para_end + 2]]
    /\ UNCHANGED_OutsideChunk

\* lines 62-66
chunk_return ==
    /\ ChunkAt("return")
    /\ calls' = [calls EXCEPT ![2] = [@ EXCEPT !.pc = "returned"]]
    /\ UNCHANGED_OutsideChunk

NextChunkLoop ==
    \/ chunk_enter
    \/ chunk_while_i
    \/ chunk_while_start
    \/ chunk_return

\* a call that is running keeps running: the interpreter takes the next step
SpecChunkLoop == InitChunker /\ [][NextChunkLoop]_vars /\ WF_vars(NextChunkLoop)

----------------------------------------------------------------------------
(* The byte store under direct calls, in both storage modes *)

StorageKeys == {<<"canonical", <<"ver", 1>>, "stable_text.txt">>,
                <<"indexes", <<"ver", 1>>, "retrieval_manifest.json">>}
StorageData == {"d1", "d2"}

storage_call(op, key, data, put) ==
    /\ Len(calls) < MaxStorageCalls
    /\ objects' = put.objects
    /\ calls' = Append(calls, [op |-> op, key |-> key, data |-> data, uri |-> put.uri])
    /\ UNCHANGED <<settings, prompts, llm_runs, documents, document_versions, evidence_files,
                   primary_axis_suggestions, derived_artifacts, chunks, soi_versions,
                   soi_documents, audit_log, bus, responses,
                   worker, now, inflight>>

call_put_bytes_write_once ==
    \E key \in StorageKeys, data \in StorageData :
        storage_call("put_bytes_write_once", key, data,
                     put_bytes_write_once(settings.STORAGE_MODE, objects, key, data))

\* LocalStorage.get_signed_url is put_bytes_write_once(key, b"")
call_LocalStorage_get_signed_url ==
    /\ settings.STORAGE_MODE = "local"
    /\ \E key \in StorageKeys :
        storage_call("put_bytes_write_once", key, EmptyBytes,
                     LocalStorage_get_signed_url(objects, key))

InitStorage ==
    /\ settings \in {Settings(mode, FALSE) : mode \in {"s3", "local"}}
    /\ EmptyDatabase
    /\ bus = <<>>
    /\ responses = <<>>
    /\ worker = [alive |-> TRUE, offset |-> 0, redelivered |-> 0]
    /\ calls = <<>>
    /\ inflight = <<>>
    /\ prompts = {}
    /\ llm_runs = {}

NextStorage ==
    \/ call_put_bytes_write_once
    \/ call_LocalStorage_get_signed_url

SpecStorage == InitStorage /\ [][NextStorage]_vars

----------------------------------------------------------------------------
(* put_bytes_write_once under calls made at the same time (the API and the worker are  *)
(* separate processes on one store): the exists test and the write are two steps       *)

\* open(path, "wb") + write, or s3.put_object: the key holds data afterwards
write_object(objs, loc, data) ==
    [k \in DOMAIN objs \cup {loc} |-> IF k = loc THEN data ELSE objs[k]]

\* where a key lives in the store of the mode
StorageLoc(mode, key) == IF mode = "local" THEN LocalStorage_full(key) ELSE key

UNCHANGED_OutsideStore ==
    UNCHANGED <<settings, prompts, llm_runs, documents, document_versions, evidence_files,
                primary_axis_suggestions, derived_artifacts, chunks, soi_versions,
                soi_documents, audit_log, bus, responses, worker, now, calls>>

\* a caller enters put_bytes_write_once(key, data)
put_arrives ==
    /\ Len(inflight) < MaxStorageCalls
    /\ \E key \in StorageKeys, data \in StorageData :
        inflight' = Append(inflight, [pc |-> "exists", key |-> key, data |-> data,
                                      loc |-> StorageLoc(settings.STORAGE_MODE, key)])
    /\ UNCHANGED objects
    /\ UNCHANGED_OutsideStore

\* storage.py line 64 (os.path.exists) or line 103 (head_object)
put_exists ==
    \E i \in DOMAIN inflight :
    /\ inflight[i].pc = "exists"
    /\ inflight' = [inflight EXCEPT ![i].pc =
            IF exists(objects, inflight[i].loc) THEN "return" ELSE "write"]
    /\ UNCHANGED objects
    /\ UNCHANGED_OutsideStore

\* storage.py lines 65-66 (open "wb", write) or line 105 (put_object)
put_write ==
    \E i \in DOMAIN inflight :
    /\ inflight[i].pc = "write"
    /\ objects' = write_object(objects, inflight[i].loc, inflight[i].data)
    /\ inflight' = [inflight EXCEPT ![i].pc = "return"]
    /\ UNCHANGED_OutsideStore

NextStorageRace ==
    \/ put_arrives
    \/ put_exists
    \/ put_write

SpecStorageRace == InitStorage /\ [][NextStorageRace]_vars

----------------------------------------------------------------------------
(* Claims *)

Requests == DOMAIN responses

SameUpload(a, b) ==
    /\ a.pdf_bytes = b.pdf_bytes
    /\ SameMetadata(a.meta, b.meta)

PassesValidation(r) ==
    /\ MissingFields(Rules, r.meta) = {}
    /\ PdfSizeMb(r.pdf_bytes) <= Rules.max_pdf_mb

InsertedNothing(r) ==
    /\ r.inserted.documents = 0
    /\ r.inserted.document_versions = 0
    /\ r.inserted.evidence_files = 0

\* C1: once an upload of bytes B under metadata M has returned 201, every later valid
\* upload of the same B and M without force_new_version returns 200
\* DEDUP_RETURN_EXISTING and inserts no document, version or evidence row.
C1_DedupeReturnsExisting ==
    \A i \in Requests, j \in Requests :
        ( /\ i < j
          /\ responses[i].res.http_status = 201
          /\ SameUpload(responses[i], responses[j])
          /\ ~ responses[j].force_new_version
          /\ PassesValidation(responses[j]) )
        => /\ responses[j].res.http_status = 200
           /\ responses[j].res.ingestion_status = "DEDUP_RETURN_EXISTING"
           /\ InsertedNothing(responses[j])

\* C8: a forced upload of the bytes and metadata of an earlier 201 upload returns 201
\* CREATED_NEW_VERSION_REUSED_FILE, inserts one version with a fresh id on the same
\* document and no evidence row, and attaches the file_id of the earlier upload.
C8_ForcedVersionReusesFile ==
    \A i \in Requests, j \in Requests :
        ( /\ i < j
          /\ responses[i].res.http_status = 201
          /\ SameUpload(responses[i], responses[j])
          /\ responses[i].meta = responses[j].meta
          /\ responses[j].force_new_version )
        => /\ responses[j].res.http_status = 201
           /\ responses[j].res.ingestion_status = "CREATED_NEW_VERSION_REUSED_FILE"
           /\ responses[j].inserted.document_versions = 1
           /\ responses[j].inserted.evidence_files = 0
           /\ responses[j].res.version_id # responses[i].res.version_id
           /\ responses[j].res.document_id = responses[i].res.document_id
           /\ responses[j].res.file_id = responses[i].res.file_id

----------------------------------------------------------------------------
(* Version status (C2, C9) *)

AllowedTransitions == {<<"PENDING", "ACTIVE">>, <<"PENDING", "FAILED">>,
                       <<"ACTIVE", "SUPERSEDED">>}

\* what a status method may do to a version found in status `before`
TransitionOf(op, before) ==
    CASE op = "mark_parent_superseded" /\ before = "ACTIVE" -> "SUPERSEDED"
      [] op = "set_status_pending_to_active" /\ before = "PENDING" -> "ACTIVE"
      [] op = "set_status_pending_to_failed" /\ before = "PENDING" -> "FAILED"
      [] OTHER -> before

\* C2: in every step (upload, worker message, restart, redelivery, direct call) a
\* version's status either stays or moves PENDING->ACTIVE, PENDING->FAILED or
\* ACTIVE->SUPERSEDED, versions are never deleted, and each call of the three status
\* methods changes the status only from the one status it names: on any other status
\* it is a no-op, so FAILED and SUPERSEDED are never left.
C2_StatusLattice ==
    /\ [][\A v \in document_versions :
            \E w \in document_versions' :
                /\ w.version_id = v.version_id
                /\ (w.status = v.status \/ <<v.status, w.status>> \in AllowedTransitions)]_vars
    /\ [](\A k \in DOMAIN calls :
            calls[k].after = TransitionOf(calls[k].op, calls[k].before))

\* a status method was called on a terminal version, and a version went all the way
\* to SUPERSEDED
C2_Witness ==
    /\ \E k \in DOMAIN calls : calls[k].before \in {"FAILED", "SUPERSEDED"}
    /\ \E v \in document_versions : v.status = "SUPERSEDED"

UploadsWithParent ==
    {j \in Requests : /\ responses[j].res.http_status = 201
                      /\ responses[j].meta.parent_version_id # NULL}

ParentBefore(j) == CHOOSE v \in responses[j].before.parent : TRUE
ParentAfter(j) == CHOOSE v \in responses[j].after.parent : TRUE
VersionOf(j) == Row(document_versions, "version_id", responses[j].res.version_id)

\* C9 as stated: after a 201 upload naming parent v1, v1 is SUPERSEDED and the new
\* version's parent is v1, whatever status v1 had.
C9_ParentAlwaysSuperseded ==
    \A j \in UploadsWithParent :
        /\ ParentAfter(j).status = "SUPERSEDED"
        /\ VersionOf(j).parent_version_id = responses[j].meta.parent_version_id

\* C9 amended: after a 201 upload naming parent v1, the new version's parent is v1, and
\* v1 is SUPERSEDED exactly when it was ACTIVE or already SUPERSEDED when the request
\* ran; a PENDING or FAILED parent keeps its status.
C9_ActiveParentSuperseded ==
    \A j \in UploadsWithParent :
        /\ VersionOf(j).parent_version_id = responses[j].meta.parent_version_id
        /\ ParentAfter(j).status = IF ParentBefore(j).status = "ACTIVE"
                                     THEN "SUPERSEDED" ELSE ParentBefore(j).status

C9_Witness ==
    \E j \in UploadsWithParent :
        /\ ParentBefore(j).status = "ACTIVE"
        /\ ParentAfter(j).status = "SUPERSEDED"
        /\ VersionOf(j).parent_version_id = ParentBefore(j).version_id

----------------------------------------------------------------------------
(* Primary axis (C3, C7) *)

\* C3: in every step, every document is still there with the primary_axis and
\* primary_axis_source it had: no upload (201, 200 or 400), suggestion upsert or worker
\* step changes them, with LLM suggestions enabled or not.
C3_PrimaryAxisImmutable ==
    [][\A d \in documents :
         \E e \in documents' :
            /\ e.document_id = d.document_id
            /\ e.primary_axis = d.primary_axis
            /\ e.primary_axis_source = d.primary_axis_source]_vars

\* an upload to an existing document stored a suggestion that differs from the truth
C3_Witness ==
    \E j \in Requests :
        /\ responses[j].before.doc # {}
        /\ responses[j].res.http_status = 201
        /\ \E s \in primary_axis_suggestions, d \in documents :
            /\ s.version_id = responses[j].res.version_id
            /\ d.document_id = responses[j].res.document_id
            /\ s.suggested_axis # d.primary_axis

\* the request matches an existing document and resolves to another axis than stored
AxisDiffers(r) ==
    /\ r.before.doc # {}
    /\ ResolvePrimaryAxis(r.meta).value # (CHOOSE d \in r.before.doc : TRUE).primary_axis

IsMismatchError(r) ==
    /\ r.res.http_status = 400
    /\ r.res.detail = "primary_axis mismatch for existing document"

----------------------------------------------------------------------------
(* Audit chain (C4) *)

\* the rows of the entity of row i that were written before it
EarlierOfEntity(log, i) ==
    {k \in 1..(i - 1) : /\ log[k].entity_type = log[i].entity_type
                        /\ log[k].entity_id = log[i].entity_id}

\* the event_hash of the last row of an entity, NULL when it has none
ChainHead(log, entity_type, entity_id) ==
    LET rows == {k \in 1..Len(log) : /\ log[k].entity_type = entity_type
                                     /\ log[k].entity_id = entity_id}
    IN IF rows = {} THEN NULL ELSE log[Max(rows)].event_hash

\* C4: with writes running one after another, the rows of each entity form one chain:
\* the first has prev_event_hash NULL, every later one has the event_hash of the row
\* written just before it for the same entity, each event_hash is the hash of the row's
\* payload with its prev_event_hash; the log only grows, and an entity's chain head
\* changes only in a step that appends a row of that entity.
C4_AuditChainLinear ==
    /\ [](\A i \in 1..Len(audit_log) :
            /\ audit_log[i].event_hash = Sha256(AuditPayload(audit_log[i]))
            /\ audit_log[i].prev_event_hash =
                 IF EarlierOfEntity(audit_log, i) = {} THEN NULL
                 ELSE audit_log[Max(EarlierOfEntity(audit_log, i))].event_hash)
    /\ [][/\ Len(audit_log') >= Len(audit_log)
          /\ SubSeq(audit_log', 1, Len(audit_log)) = audit_log
          /\ \A i \in 1..Len(audit_log) :
                LET r == audit_log[i] IN
                ChainHead(audit_log', r.entity_type, r.entity_id)
                    # ChainHead(audit_log, r.entity_type, r.entity_id)
                => \E k \in (Len(audit_log) + 1)..Len(audit_log') :
                      /\ audit_log'[k].entity_type = r.entity_type
                      /\ audit_log'[k].entity_id = r.entity_id]_vars

\* two rows of one version follow each other in its chain with rows of other entities
\* written in between
C4_Witness ==
    \E i \in 1..Len(audit_log), j \in 1..Len(audit_log) :
        /\ i + 1 < j
        /\ audit_log[i].entity_type = "version"
        /\ EarlierOfEntity(audit_log, j) # {}
        /\ Max(EarlierOfEntity(audit_log, j)) = i
        /\ audit_log[j].prev_event_hash = audit_log[i].event_hash
        /\ \E k \in (i + 1)..(j - 1) :
            \/ audit_log[k].entity_type # "version"
            \/ audit_log[k].entity_id # audit_log[i].entity_id

----------------------------------------------------------------------------
(* Byte store (C5, C6) *)

Min(S) == CHOOSE x \in S : \A y \in S : x <= y

\* the first call made on the key of call k
FirstCall(k) == Min({i \in DOMAIN calls : calls[i].key = calls[k].key})

EvidenceLocation(f) == parse_storage_uri(f.storage_uri)[2]

\* C6: for every evidence_files row, the bytes at its storage_uri hash to its sha256,
\* and no step changes the bytes at the storage_uri of an existing row.
C6_EvidenceHashMatchesBytes ==
    /\ [](\A f \in evidence_files :
            /\ EvidenceLocation(f) \in DOMAIN objects
            /\ Sha256(objects[EvidenceLocation(f)]) = f.sha256)
    /\ [][\A f \in evidence_files :
            /\ EvidenceLocation(f) \in DOMAIN objects'
            /\ objects'[EvidenceLocation(f)] = objects[EvidenceLocation(f)]]_vars

\* one document holds two evidence files of different bytes, and the worker has
\* written artifacts to the same store
C6_Witness ==
    /\ derived_artifacts # {}
    /\ \E f \in evidence_files, g \in evidence_files, v \in document_versions,
          w \in document_versions :
        /\ f.sha256 # g.sha256
        /\ v.version_id = f.version_id
        /\ w.version_id = g.version_id
        /\ v.document_id = w.document_id

----------------------------------------------------------------------------
(* Parent relation (C10) *)

RECURSIVE ReachesRoot(_, _)
\* following parent_version_id from version_id ends at NULL within n steps
ReachesRoot(version_id, n) ==
    IF version_id = NULL THEN TRUE
    ELSE IF n = 0 \/ ~ Has(document_versions, "version_id", version_id) THEN FALSE
    ELSE ReachesRoot(Row(document_versions, "version_id", version_id).parent_version_id, n - 1)

\* the parent the request names is unknown or of another document than the request's
NamesBadParent(r) ==
    /\ r.meta.parent_version_id # NULL
    /\ \/ r.before.parent = {}
       \/ \A d \in r.before.doc :
            d.document_id # (CHOOSE v \in r.before.parent : TRUE).document_id

\* C10: every version with a parent references an existing version of the same
\* document, following parents always ends at a version without parent, and a request
\* naming an unknown parent or a parent of another document inserts no version row and
\* never returns 201: it fails with 400, unless the dedupe short-circuit answered 200
\* before create_version was called.
C10_ParentSameDocumentNoCycle ==
    /\ \A v \in document_versions :
        /\ v.parent_version_id # NULL
           => \E p \in document_versions :
                /\ p.version_id = v.parent_version_id
                /\ p.document_id = v.document_id
        /\ ReachesRoot(v.version_id, Cardinality(document_versions))
    /\ \A j \in Requests :
        NamesBadParent(responses[j])
        => /\ responses[j].inserted.document_versions = 0
           /\ \/ responses[j].res.http_status = 400
              \/ /\ responses[j].res.http_status = 200
                 /\ responses[j].res.ingestion_status = "DEDUP_RETURN_EXISTING"

\* create_version refused a parent that exists under another document
C10_Witness ==
    \E j \in Requests :
        /\ responses[j].before.parent # {}
        /\ NamesBadParent(responses[j])
        /\ responses[j].res.http_status = 400
        /\ responses[j].res.detail = "parent_version_id belongs to a different document_id"

----------------------------------------------------------------------------
(* Canonicalize worker: failure handling (C11, C12) *)

\* this step is the canonicalize worker taking the message at its offset: it either
\* moves on to the next message or dies on it
WorkerTakesMessage ==
    /\ worker.alive
    /\ worker.offset < Len(bus)
    /\ (worker'.offset = worker.offset + 1 \/ ~ worker'.alive)

\* the message the canonicalize worker is at
WorkerMessage == bus[worker.offset + 1]

HasFailedAudit(log, version_id, from) ==
    \E k \in from..Len(log) :
        /\ log[k].entity_type = "version"
        /\ log[k].entity_id = version_id
        /\ log[k].action = "EPIC1.INGESTION.FAILED"

Published(version_id) ==
    \E k \in DOMAIN bus :
        /\ bus[k].event_type = "EPIC1.REGISTRY.VERSION_CREATED"
        /\ bus[k].payload.version_id = version_id

KindsOf(version_id) == {a.kind : a \in {x \in derived_artifacts : x.version_id = version_id}}

\* the worker read and extracted the evidence of the version: store_canonical ran
Canonicalized(version_id) == "stable_text" \in KindsOf(version_id)

\* C11: whenever the worker takes REGISTRY.VERSION_CREATED for a PENDING version and
\* does not reach the transition to ACTIVE, the step leaves the version FAILED and
\* writes an INGESTION.FAILED audit row for it.
C11_FailedStepMarksFailed ==
    [][( /\ WorkerTakesMessage
         /\ WorkerMessage.event_type = "EPIC1.REGISTRY.VERSION_CREATED"
         /\ StatusOf(document_versions, WorkerMessage.payload.version_id) = "PENDING" )
       => \/ StatusOf(document_versions', WorkerMessage.payload.version_id) = "ACTIVE"
          \/ /\ StatusOf(document_versions', WorkerMessage.payload.version_id) = "FAILED"
             /\ HasFailedAudit(audit_log', WorkerMessage.payload.version_id,
                               Len(audit_log) + 1)]_vars

\* C12: for every FAILED version the bus holds exactly one INGESTION.FAILED event of
\* that version.
C12_OneFailedEventPerFailedVersion ==
    \A v \in document_versions :
        v.status = "FAILED"
        => Cardinality({k \in DOMAIN bus :
                          /\ bus[k].event_type = "EPIC1.INGESTION.FAILED"
                          /\ bus[k].entity_id = v.version_id}) = 1

----------------------------------------------------------------------------
(* Replay of REGISTRY.VERSION_CREATED (C13, C14) *)

ArtifactKinds == {"stable_text", "page_map", "layout_map", "chunk_set", "retrieval_manifest"}

ShasOf(artifacts, version_id, kind) ==
    {a.sha256 : a \in {x \in artifacts : x.version_id = version_id /\ x.kind = kind}}

----------------------------------------------------------------------------
(* The SoI read model (C15) *)

WithoutUpdatedAt(rows) == {[f \in DOMAIN r \ {"updated_at"} |-> r[f]] : r \in rows}

\* this step is the SoI worker taking the event it took last, nothing written between
ProjectsAgain == calls' # calls /\ calls' # <<>> /\ calls'[1].again

\* C15: when project processes an event a second time in a row with no other write
\* between the two calls, the soi_versions and soi_documents rows after the second
\* call, updated_at left aside, are those after the first call.
C15_ProjectTwiceSameRows ==
    [][ProjectsAgain
       => /\ WithoutUpdatedAt(soi_versions') = WithoutUpdatedAt(soi_versions)
          /\ WithoutUpdatedAt(soi_documents') = WithoutUpdatedAt(soi_documents)
          /\ Cardinality(soi_versions') = Cardinality(soi_versions)
          /\ Cardinality(soi_documents') = Cardinality(soi_documents)]_vars

\* INGESTION.COMPLETED of a version with derived artifacts was projected twice in a row
C15_Witness ==
    /\ calls # <<>>
    /\ calls[1].again
    /\ calls[1].event_type = "EPIC1.INGESTION.COMPLETED"
    /\ \E r \in soi_versions :
        /\ r.version_id = payload_get(calls[1].payload, "version_id")
        /\ r.artifact_count > 0
    /\ soi_documents # {}

----------------------------------------------------------------------------
(* Happy path (C16) *)

\* C16: under DEFAULT_RULES, an upload for a metadata tuple without document, with a
\* blank primary_axis, a non-blank jurisdiction, no parent and an allowed size returns
\* 201 and leaves a document with primary_axis "jurisdiction" and source
\* DETERMINISTIC_RULE.
C16_HappyPathDerivesJurisdiction ==
    \A j \in Requests :
        LET r == responses[j] IN
        ( /\ r.before.doc = {}
          /\ ~ NonBlank(r.meta.primary_axis)
          /\ NonBlank(r.meta.jurisdiction)
          /\ r.meta.parent_version_id = NULL
          /\ PdfSizeMb(r.pdf_bytes) <= Rules.max_pdf_mb )
        => /\ r.res.http_status = 201
           /\ \E d \in documents :
                /\ d.document_id = r.res.document_id
                /\ d.primary_axis = "jurisdiction"
                /\ d.primary_axis_source = "DETERMINISTIC_RULE"

----------------------------------------------------------------------------
(* file_id of a version (C18) *)

\* C18: in every step, a version's file_id either stays or goes from NULL to a
\* file_id; a set_version_file_id on a version that has a file_id does not replace it.
C18_FileIdAssignedOnce ==
    [][\A v \in document_versions, w \in document_versions' :
         w.version_id = v.version_id
         => (w.file_id = v.file_id \/ v.file_id = NULL)]_vars

----------------------------------------------------------------------------
(* Progress of the canonicalize worker (C17) *)

\* C17: under fair delivery and fair worker progress, every version whose
\* REGISTRY.VERSION_CREATED was published eventually leaves PENDING, and one whose
\* evidence was read and extracted eventually is ACTIVE with the canonical artifacts,
\* chunk_set and retrieval_manifest registered.
C17_PublishedVersionLeavesPending ==
    \A n \in 1..MaxRequests :
        /\ Published(<<"ver", n>>)
            ~> (\A v \in document_versions :
                    v.version_id = <<"ver", n>> => v.status # "PENDING")
        /\ (Published(<<"ver", n>>) /\ Canonicalized(<<"ver", n>>))
            ~> ( /\ \E v \in document_versions :
                        v.version_id = <<"ver", n>> /\ v.status = "ACTIVE"
                 /\ {"stable_text", "page_map", "layout_map", "chunk_set",
                     "retrieval_manifest"} \subseteq KindsOf(<<"ver", n>>) )

----------------------------------------------------------------------------
(* Page map (C20) *)

ExtractCalls == {k \in DOMAIN calls : calls[k].op = "extract"}

RECURSIVE ConcatSlices(_, _, _)
\* stable_text[start_char:end_char] of pages i.. of the page_map, concatenated
ConcatSlices(stable_text, page_map, i) ==
    IF i > Len(page_map) THEN <<>>
    ELSE SubSeq(stable_text, page_map[i].start_char + 1, page_map[i].end_char)
            \o ConcatSlices(stable_text, page_map, i + 1)

\* C20: for every sequence of page texts, empty pages and no pages included, the
\* page_map of extract has one entry per page numbered 1..n in order, starts at 0, each
\* page ends where the next starts, the last ends at len(stable_text), and the slices
\* of stable_text it names concatenate to stable_text.
C20_PageMapPartitionsText ==
    \A k \in ExtractCalls :
        LET pm == calls[k].out.page_map
            text == calls[k].out.stable_text
            n == Len(calls[k].pages)
        IN /\ Len(pm) = n
           /\ \A i \in 1..n :
                /\ pm[i].page = i
                /\ pm[i].start_char = (IF i = 1 THEN 0 ELSE pm[i - 1].end_char)
                /\ pm[i].start_char <= pm[i].end_char
                /\ pm[i].end_char <= Len(text)
                /\ SubSeq(text, pm[i].start_char + 1, pm[i].end_char) = calls[k].pages[i]
           /\ (n > 0 => pm[n].end_char = Len(text))
           /\ (n = 0 => text = <<>>)
           /\ ConcatSlices(text, pm, 1) = text

\* extract ran on a document with an empty page between two pages of text
C20_Witness ==
    \E k \in ExtractCalls :
        /\ Len(calls[k].pages) = MaxPages
        /\ calls[k].pages[1] # <<>>
        /\ calls[k].pages[2] = <<>>
        /\ calls[k].pages[MaxPages] # <<>>
        /\ Len(calls[k].out.page_map) = MaxPages

----------------------------------------------------------------------------
(* Chunks (C19) *)

ChunkCalls == {k \in DOMAIN calls : calls[k].op = "chunk"}

\* C19: for every stable_text with a page_map partitioning it, max_chars >= 1 and
\* overlap_chars >= 0, every chunk returned has start_char < end_char, at most
\* max_chars characters, a text that is not whitespace only, and page_start <= page_end.
C19_ChunksWellFormed ==
    \A k \in ChunkCalls :
        \A i \in 1..Len(calls[k].out.chunks) :
            LET c == calls[k].out.chunks[i]
                a == calls[k].args
            IN /\ 0 <= c.start_char
               /\ c.start_char < c.end_char
               /\ c.end_char <= Len(a.stable_text)
               /\ c.end_char - c.start_char <= a.max_chars
               /\ \E p \in (c.start_char + 1)..c.end_char : ~ IsSpace(a.stable_text[p])
               /\ c.page_start <= c.page_end

\* chunk ran with overlap on a text with a paragraph break, a whitespace-only piece
\* was skipped, and a chunk spans two pages
C19_Witness ==
    \E k \in ChunkCalls :
        LET a == calls[k].args
            out == calls[k].out
        IN /\ a.overlap_chars > 0
           /\ a.max_chars > 1
           /\ find_paragraph_break(a.stable_text, 0) # -1
           /\ \E p \in 1..Len(a.stable_text) : IsSpace(a.stable_text[p])
           /\ \E i \in 1..Len(out.chunks) : out.chunks[i].page_start < out.chunks[i].page_end

----------------------------------------------------------------------------
(* Suggestions (C21) *)

\* the axes a caller of upsert_primary_axis_suggestion can pass
SuggestedAxes == {"jurisdiction", "product_scope", "theme"}

UpsertOnce(version_id, axis) ==
    upsert_primary_axis_suggestion(primary_axis_suggestions, version_id, axis, LLM_MODEL_NAME,
                                   LLM_MODEL_VERSION, "0.55", "stub_rule_suggestion")

UpsertTwice(version_id, axis) ==
    upsert_primary_axis_suggestion(UpsertOnce(version_id, axis), version_id, axis,
                                   LLM_MODEL_NAME, LLM_MODEL_VERSION, "0.55",
                                   "stub_rule_suggestion")

\* C21: there is at most one primary_axis_suggestions row per version_id; calling
\* upsert_primary_axis_suggestion twice with the same arguments leaves the rows of one
\* call; and every suggestion row is of a version created by an ingest_request that ran
\* with the LLM suggestion enabled.
C21_OneSuggestionPerVersion ==
    /\ \A s, t \in primary_axis_suggestions : s.version_id = t.version_id => s = t
    /\ \A v \in document_versions, axis \in SuggestedAxes :
        UpsertTwice(v.version_id, axis) = UpsertOnce(v.version_id, axis)
    /\ \A s \in primary_axis_suggestions :
        /\ settings.ENABLE_LLM_PRIMARY_AXIS_SUGGESTION
        /\ \E k \in DOMAIN responses :
            /\ responses[k].res.http_status = 201
            /\ responses[k].res.version_id = s.version_id

\* two versions with their suggestions next to a version-creating request each
C21_Witness ==
    /\ Cardinality(primary_axis_suggestions) = 2
    /\ Cardinality(document_versions) = 2

----------------------------------------------------------------------------
(* Evidence and documents (C22) *)

\* C22: for every version v with a file_id, the evidence row of that file_id was
\* created for a version of v's own document.
C22_EvidenceOfOwnDocument ==
    \A v \in document_versions :
        v.file_id # NULL
        => \A f \in evidence_files :
            f.file_id = v.file_id
            => \E w \in document_versions :
                /\ w.version_id = f.version_id
                /\ w.document_id = v.document_id

----------------------------------------------------------------------------
(* Redelivery to a version that left PENDING (C24) *)

\* C24: a step of the canonicalize worker that takes REGISTRY.VERSION_CREATED of a
\* version whose status is not PENDING writes no derived_artifacts, chunks or audit_log
\* row, changes no version column and publishes no event.
C24_RedeliveryIsNoOp ==
    [][( /\ WorkerTakesMessage
         /\ WorkerMessage.event_type = "EPIC1.REGISTRY.VERSION_CREATED"
         /\ \E v \in document_versions :
                /\ v.version_id = WorkerMessage.payload.version_id
                /\ v.status # "PENDING" )
       => UNCHANGED <<derived_artifacts, chunks, audit_log, document_versions, bus>>]_vars

----------------------------------------------------------------------------
(* Order of the audit rows of a request (C25) *)

\* the actions of the audit rows of a request, in the order written
ActionsOf(correlation_id) ==
    LET idx == {i \in DOMAIN audit_log : audit_log[i].correlation_id = correlation_id}
        RECURSIVE walk(_)
        walk(S) == IF S = {} THEN <<>>
                   ELSE <<audit_log[Min(S)].action>> \o walk(S \ {Min(S)})
    IN walk(idx)

\* C25: every ingest_request, one rejected for missing required fields or for its size
\* included, leaves a REQUEST.RECEIVED audit row, and the audit rows of a request begin
\* with REQUEST.RECEIVED, FINGERPRINT.COMPUTED, DEDUP.CHECKED in that order.
C25_RequestReceivedFirst ==
    \A k \in DOMAIN responses :
        LET actions == ActionsOf(responses[k].res.correlation_id) IN
        /\ Len(actions) >= 1
        /\ actions[1] = "EPIC1.REQUEST.RECEIVED"
        /\ Len(actions) >= 3
            => /\ actions[2] = "EPIC1.FINGERPRINT.COMPUTED"
               /\ actions[3] = "EPIC1.DEDUP.CHECKED"

----------------------------------------------------------------------------
(* C29: when AuditService.write calls for one (entity_type, entity_id) interleave, the *)
(* entity's chain never forks: no two audit rows of one entity carry the same          *)
(* prev_event_hash, and every row's prev_event_hash is the event_hash of exactly one   *)
(* earlier row of that entity, or null for the entity's first row.                     *)
SameEntity(a, b) == a.entity_type = b.entity_type /\ a.entity_id = b.entity_id

C29_ChainNeverForks ==
    \A j \in 1..Len(audit_log) :
        LET earlier == {i \in 1..(j - 1) : SameEntity(audit_log[i], audit_log[j])} IN
        /\ \A i \in earlier : audit_log[i].prev_event_hash # audit_log[j].prev_event_hash
        /\ IF earlier = {}
           THEN audit_log[j].prev_event_hash = NULL
           ELSE Cardinality({i \in earlier :
                    audit_log[i].event_hash = audit_log[j].prev_event_hash}) = 1

----------------------------------------------------------------------------
(* C23: when two ingest_requests for the same new metadata tuple (title, jurisdiction, *)
(* regulation_family, instrument_type) both find no document and both attempt          *)
(* create_document, then once both are over exactly one documents row of that tuple    *)
(* exists and both requests completed successfully, each with a version on that row.   *)
SameDocumentKey(a, b) ==
    /\ a.title = b.title
    /\ a.jurisdiction = b.jurisdiction
    /\ a.regulation_family = b.regulation_family
    /\ a.instrument_type = b.instrument_type

BothAttemptedCreateDocument(i, j) ==
    /\ i # j
    /\ inflight[i].no_doc /\ inflight[j].no_doc
    /\ SameDocumentKey(inflight[i].meta, inflight[j].meta)
    /\ inflight[i].pc = "done" /\ inflight[j].pc = "done"

CompletedOnDocument(L, d) ==
    /\ L.res.http_status \in {200, 201}
    /\ L.res.document_id = d.document_id
    /\ \E v \in document_versions :
            v.version_id = L.res.version_id /\ v.document_id = d.document_id

C23_DuplicateKeyRecovered ==
    \A i, j \in DOMAIN inflight :
        BothAttemptedCreateDocument(i, j) =>
            LET rows == {d \in documents : SameDocumentKey(d, inflight[i].meta)} IN
            /\ Cardinality(rows) = 1
            /\ \A d \in rows : CompletedOnDocument(inflight[i], d)
                               /\ CompletedOnDocument(inflight[j], d)

----------------------------------------------------------------------------
(* C30: when two ingest_requests with the same bytes and the same metadata, both with  *)
(* force_new_version = false, interleave arbitrarily, then once both are over there is *)
(* exactly one evidence row for that sha and exactly one version row for that upload,  *)
(* and at least one of the two requests returned DEDUP_RETURN_EXISTING.                *)
SameUploadTwice(i, j) ==
    /\ i # j
    /\ inflight[i].pdf_bytes = inflight[j].pdf_bytes
    /\ inflight[i].request_meta = inflight[j].request_meta
    /\ ~ inflight[i].force_new_version /\ ~ inflight[j].force_new_version
    /\ inflight[i].pc = "done" /\ inflight[j].pc = "done"

VersionsOfUpload(L) ==
    {v \in document_versions :
        /\ v.raw_sha256 = L.sha
        /\ \E d \in documents : d.document_id = v.document_id /\ SameDocumentKey(d, L.meta)}

C30_ConcurrentReplayIsSafe ==
    \A i, j \in DOMAIN inflight :
        SameUploadTwice(i, j) =>
            /\ Cardinality({f \in evidence_files : f.sha256 = inflight[i].sha}) = 1
            /\ Cardinality(VersionsOfUpload(inflight[i])) = 1
            /\ \E k \in {i, j} : inflight[k].res.ingestion_status = "DEDUP_RETURN_EXISTING"

----------------------------------------------------------------------------
(* C28: for every ingest_request returning 201, ingestion_status is                     *)
(* CREATED_NEW_DOCUMENT_AND_VERSION exactly when the request inserted a documents row, *)
(* CREATED_NEW_VERSION_REUSED_FILE exactly when it inserted a version on an existing   *)
(* document without inserting an evidence row, and CREATED_NEW_VERSION exactly when it *)
(* inserted a version and an evidence row on an existing document.                     *)
C28_StatusNamesWhatWasInserted ==
    \A k \in 1..Len(responses) :
        LET r == responses[k] IN
        r.res.http_status = 201 =>
            /\ r.res.ingestion_status = "CREATED_NEW_DOCUMENT_AND_VERSION"
                    <=> r.inserted.documents = 1
            /\ r.res.ingestion_status = "CREATED_NEW_VERSION_REUSED_FILE"
                    <=> /\ r.inserted.documents = 0
                        /\ r.inserted.document_versions = 1
                        /\ r.inserted.evidence_files = 0
            /\ r.res.ingestion_status = "CREATED_NEW_VERSION"
                    <=> /\ r.inserted.documents = 0
                        /\ r.inserted.document_versions = 1
                        /\ r.inserted.evidence_files = 1

----------------------------------------------------------------------------
(* C26: a REGISTRY.VERSION_CREATED bus event for a version is on the bus only when the *)
(* version's row exists with the event's file_id attached and the evidence row of that *)
(* file exists; exactly one such event is published for each upload that returns 201,  *)
(* and none for an upload that returns DEDUP_RETURN_EXISTING or fails.                 *)
VersionCreatedEvents ==
    {k \in DOMAIN bus : bus[k].event_type = "EPIC1.REGISTRY.VERSION_CREATED"}

EventsOfRequest(correlation_id) ==
    {k \in VersionCreatedEvents : bus[k].correlation_id = correlation_id}

C26_VersionCreatedAfterRows ==
    /\ \A k \in VersionCreatedEvents :
        /\ bus[k].payload.file_id # NULL
        /\ \E v \in document_versions :
                /\ v.version_id = bus[k].payload.version_id
                /\ v.document_id = bus[k].payload.document_id
                /\ v.file_id = bus[k].payload.file_id
        /\ \E f \in evidence_files : f.file_id = bus[k].payload.file_id
        /\ \E j \in DOMAIN responses : responses[j].res.correlation_id = bus[k].correlation_id
    /\ \A j \in DOMAIN responses :
        Cardinality(EventsOfRequest(responses[j].res.correlation_id))
            = IF responses[j].res.http_status = 201 THEN 1 ELSE 0

C26_Witness ==
    /\ \E j \in DOMAIN responses :
        /\ responses[j].res.http_status = 201
        /\ Cardinality(EventsOfRequest(responses[j].res.correlation_id)) = 1
    /\ \E j \in DOMAIN responses :
        /\ responses[j].res.ingestion_status = "DEDUP_RETURN_EXISTING"
        /\ EventsOfRequest(responses[j].res.correlation_id) = {}

----------------------------------------------------------------------------
(* C27: for every version the canonicalize worker has extracted, it publishes          *)
(* LLM.DERIVATION_REQUESTED and then INGESTION.COMPLETED, both only after all of its   *)
(* own writes for the delivery (canonical artifacts, chunk_set, retrieval_manifest,    *)
(* status update, artifacts_json), and the stable_text_artifact_id carried by          *)
(* LLM.DERIVATION_REQUESTED names a derived_artifacts row of kind stable_text of that  *)
(* version.                                                                            *)
EventsFor(version_id, event_type) ==
    {k \in DOMAIN bus : /\ bus[k].event_type = event_type
                        /\ bus[k].payload.version_id = version_id}

WorkerWritesDone(v) ==
    /\ {"stable_text", "chunk_set", "retrieval_manifest"} \subseteq KindsOf(v.version_id)
    /\ v.status # "PENDING"
    /\ v.artifacts_json # {}

----------------------------------------------------------------------------
(* C37: for every chunk and every page_map whose intervals partition                   *)
(* [0, len(stable_text)], page_start is the number of the page whose half-open         *)
(* interval [start_char, end_char) contains the chunk's start_char, and page_end the   *)
(* number of the page whose half-open interval contains end_char - 1, chunks that      *)
(* begin exactly at a page boundary included.                                          *)
PagesHolding(page_map, pos) ==
    {page_map[p].page : p \in {q \in DOMAIN page_map :
                                 /\ page_map[q].start_char <= pos
                                 /\ pos < page_map[q].end_char}}

C37_PagesAreHalfOpen ==
    \A k \in ChunkCalls :
        \A i \in 1..Len(calls[k].out.chunks) :
            LET c == calls[k].out.chunks[i]
                pm == calls[k].args.page_map
            IN /\ PagesHolding(pm, c.start_char) = {c.page_start}
               /\ PagesHolding(pm, c.end_char - 1) = {c.page_end}

----------------------------------------------------------------------------
(* C36: for every stable_text and every policy with max_chars >= 1 and                 *)
(* overlap_chars >= 0, SimpleDeterministicChunker.chunk terminates: the cursor         *)
(* strictly increases on every inner-loop step (and from paragraph to paragraph), the  *)
(* overlap is clamped to max_chars - 1 (0 when max_chars is 1), the emitted chunks     *)
(* have strictly increasing start_char, and none includes a paragraph separator.       *)
HasParagraphBreak(text) == \E p \in 1..(Len(text) - 1) : text[p] = NL /\ text[p + 1] = NL

ChunkLocalsSound ==
    Len(calls) = 2 =>
        LET L == calls[2] IN
        /\ L.overlap >= 0
        /\ L.overlap <= L.max_len - 1
        /\ \A a \in 1..Len(L.chunk_list) :
            /\ ~ HasParagraphBreak(Slice(calls[1].stable_text, L.chunk_list[a].start_char,
                                         L.chunk_list[a].end_char))
            /\ \A b \in (a + 1)..Len(L.chunk_list) :
                    L.chunk_list[a].start_char < L.chunk_list[b].start_char

CursorAdvances ==
    /\ (ChunkAt("while_start") /\ calls[2].start < calls[2].para_end)
            => calls'[2].start > calls[2].start
    /\ (ChunkAt("while_start") /\ calls[2].start >= calls[2].para_end)
            => calls'[2].i > calls[2].i

C36_ChunkTerminates ==
    /\ []ChunkLocalsSound
    /\ [][CursorAdvances]_vars
    /\ <>ChunkAt("returned")

\* a call with overlap on a text with a paragraph break returned several chunks
C36_Witness ==
    /\ ChunkAt("returned")
    /\ calls[2].overlap > 0
    /\ HasParagraphBreak(calls[1].stable_text)
    /\ Len(calls[2].chunk_list) >= 3
    /\ calls[2].chunk_list = chunk(calls[1].stable_text, calls[1].page_map,
                                   calls[1].max_chars, calls[1].overlap_chars).chunks

----------------------------------------------------------------------------
(* C31: when two put_bytes_write_once calls on the same key with different data        *)
(* interleave, the bytes stored under the key never change after the first write has   *)
(* completed: no step replaces the bytes of a key that already holds bytes.            *)
StoredBytesKept ==
    \A loc \in DOMAIN objects : loc \in DOMAIN objects' /\ objects'[loc] = objects[loc]

C31_WriteOnceUnderRace == [][StoredBytesKept]_vars

----------------------------------------------------------------------------
(* C32: for every version and every delivery order of its events to the projector,     *)
(* duplicates included: when INGESTION.COMPLETED is projected, soi_versions'           *)
(* artifact_count becomes the number of derived_artifacts rows of the version, and a   *)
(* later (re)delivery of REGISTRY.VERSION_CREATED or INGESTION.FAILED for the same     *)
(* version does not reset it to a smaller value.                                       *)
ArtifactCountOf(rows, version_id) == {r.artifact_count : r \in {x \in rows : x.version_id = version_id}}

ProjectsCompleted ==
    /\ calls' # calls
    /\ calls' # <<>>
    /\ calls'[1].event_type = "EPIC1.INGESTION.COMPLETED"

ProjectsAfterCompleted ==
    /\ calls # <<>>
    /\ calls[1].event_type = "EPIC1.INGESTION.COMPLETED"
    /\ calls' # calls
    /\ calls'[1].event_type \in {"EPIC1.REGISTRY.VERSION_CREATED", "EPIC1.INGESTION.FAILED"}
    /\ calls'[1].payload = calls[1].payload

C32_ArtifactCountKept ==
    [][ /\ ProjectsCompleted =>
            LET vid == payload_get(calls'[1].payload, "version_id") IN
            \A c \in ArtifactCountOf(soi_versions', vid) :
                c = Cardinality({a \in derived_artifacts' : a.version_id = vid})
        /\ ProjectsAfterCompleted =>
            LET vid == payload_get(calls[1].payload, "version_id") IN
            \A c \in ArtifactCountOf(soi_versions, vid) :
                \A c2 \in ArtifactCountOf(soi_versions', vid) : c2 >= c ]_vars

----------------------------------------------------------------------------
(* C34: in every reachable state, also after REGISTRY.VERSION_CREATED has been         *)
(* delivered more than once for a version, the number of chunks rows of the version    *)
(* equals the number of chunks in its chunk set (none when it has no chunk set).       *)
ChunkRowsOf(version_id) == {c \in chunks : c.version_id = version_id}

ChunkSetsOf(version_id) ==
    {a \in derived_artifacts : a.version_id = version_id /\ a.kind = "chunk_set"}

\* the chunks listed by the chunk_set JSON stored at the row's storage_uri
ChunksListed(a) == objects[a.storage_uri.path][2].chunks

----------------------------------------------------------------------------
----------------------------------------------------------------------------
(* C39: an INGESTION.COMPLETED event is published for a version only when the          *)
(* version's status is ACTIVE (or already SUPERSEDED) at the time of publication; it   *)
(* is never published for a version whose status is FAILED or PENDING.                 *)
PublishedNow == (Len(bus) + 1)..Len(bus')

----------------------------------------------------------------------------
(* C40: in every reachable state, every audit row with action INGESTION.FAILED for a   *)
(* version implies that the version's status is FAILED: no worker records              *)
(* INGESTION.FAILED for a version that is or remains PENDING, ACTIVE or SUPERSEDED.    *)
C40_FailedAuditMeansFailed ==
    \A k \in DOMAIN audit_log :
        (audit_log[k].entity_type = "version" /\ audit_log[k].action = "EPIC1.INGESTION.FAILED")
            => \A v \in document_versions :
                    v.version_id = audit_log[k].entity_id => v.status = "FAILED"

----------------------------------------------------------------------------
(* Convergence of the read model (C33) *)

\* the version of a document created last
LatestVersionOf(document_id) ==
    CHOOSE v \in {w \in document_versions : w.document_id = document_id} :
        \A w \in document_versions :
            w.document_id = document_id => w.version_id[2] <= v.version_id[2]

ReadModelConverged ==
    /\ \A v \in document_versions :
        \E s \in soi_versions : s.version_id = v.version_id /\ s.status = v.status
    /\ \A d \in documents :
        (\E v \in document_versions : v.document_id = d.document_id) =>
            \E s \in soi_documents :
                /\ s.document_id = d.document_id
                /\ s.latest_version_id = LatestVersionOf(d.document_id).version_id

\* C33: under fair delivery of the bus to the SoI worker the read model converges:
\* from some point on soi_versions.status equals document_versions.status for every
\* version, FAILED ones included, and soi_documents.latest_version_id names the
\* version of the document created last
C33_ReadModelConverges == <>[]ReadModelConverged

----------------------------------------------------------------------------
(* What the LLM worker writes (C35) *)

\* the step is a message of the LLM worker and the message is a derivation request
TakesDerivationRequest ==
    /\ Len(calls') = Len(calls) + 1
    /\ calls'[Len(calls')].event_type = "EPIC1.LLM.DERIVATION_REQUESTED"

\* the event was published with its run completed and its output artifact and audit
\* row written
PublishedAfterWrites(e) ==
    /\ e.event_type = "EPIC1.LLM.DERIVATION_COMPLETED"
    /\ \E r \in llm_runs' :
        /\ r.run_id = e.payload.run_id
        /\ r.status = "COMPLETED"
        /\ r.output_artifact_id = e.payload.output_artifact_id
    /\ \E a \in derived_artifacts' :
        /\ a.artifact_id = e.payload.output_artifact_id
        /\ a.kind = "llm_output"
        /\ a.version_id = e.payload.version_id
    /\ \E k \in DOMAIN audit_log' :
        /\ audit_log'[k].action = "EPIC1.LLM.DERIVATION_COMPLETED"
        /\ audit_log'[k].entity_id = e.payload.version_id
        /\ audit_log'[k].details.run_id = e.payload.run_id

\* C35: processing a LLM.DERIVATION_REQUESTED event, the first time or again, leaves
\* every documents, document_versions and primary_axis_suggestions row as it was; the
\* LLM worker only adds prompts, llm_runs, derived_artifacts of kind llm_output and
\* audit rows, and what it publishes is LLM.DERIVATION_COMPLETED, after those writes
C35_LlmWorkerOnlyAdds ==
    [][TakesDerivationRequest =>
          /\ documents' = documents
          /\ document_versions' = document_versions
          /\ primary_axis_suggestions' = primary_axis_suggestions
          /\ evidence_files' = evidence_files
          /\ chunks' = chunks
          /\ prompts \subseteq prompts'
          /\ {r.run_id : r \in llm_runs} \subseteq {r.run_id : r \in llm_runs'}
          /\ derived_artifacts \subseteq derived_artifacts'
          /\ \A a \in derived_artifacts' \ derived_artifacts : a.kind = "llm_output"
          /\ SubSeq(audit_log', 1, Len(audit_log)) = audit_log
          /\ SubSeq(bus', 1, Len(bus)) = bus
          /\ \A k \in (Len(bus) + 1)..Len(bus') : PublishedAfterWrites(bus'[k])]_vars

\* the same derivation request was processed twice, and once more for a missing artifact
C35_Witness ==
    /\ Len(calls) = 3
    /\ calls[1] = calls[2]
    /\ calls[1].event_type = "EPIC1.LLM.DERIVATION_REQUESTED"
    /\ calls[1].payload.stable_text_artifact_id # MissingArtifactId
    /\ calls[3].event_type = "EPIC1.LLM.DERIVATION_REQUESTED"
    /\ calls[3].payload.stable_text_artifact_id = MissingArtifactId
    /\ Cardinality({a \in derived_artifacts : a.kind = "llm_output"}) = 2
    /\ Cardinality(llm_runs) = 2
    /\ Cardinality(prompts) = 1
    /\ \E k \in DOMAIN bus : bus[k].event_type = "EPIC1.LLM.DERIVATION_COMPLETED"

====
